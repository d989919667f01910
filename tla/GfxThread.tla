----------------------------- MODULE GfxThread -----------------------------
(***************************************************************************)
(* The graphics thread of src/src/gfx/gfx_thread.c and the threads that   *)
(* talk to it.                                                             *)
(*                                                                         *)
(*  - gfx: gfx_main, which holds gfx_thread_work_lock except while it     *)
(*    waits on gfx_thread_work_condition, and runs gfx_thread_run_once    *)
(*    on every wakeup while dc_is_running();                              *)
(*  - emu: the emulation thread calling gfx_thread_redraw,                *)
(*    gfx_thread_render_geo_buf, gfx_thread_expose (clear a flag, then    *)
(*    gfx_thread_notify_wake_up) and gfx_thread_read_framebuffer;         *)
(*  - the window thread's dreamcast_kill, which makes dc_is_running()     *)
(*    false.                                                               *)
(*                                                                         *)
(* A cleared atomic_flag not_X is modelled as X \in pending.  pthread     *)
(* condition variables may wake a waiter spuriously (POSIX); the number   *)
(* of spurious wakeups is bounded by MaxSpurious.                         *)
(***************************************************************************)
EXTENDS Naturals

CONSTANTS
    MaxOps,        \* calls the emulation thread makes
    MaxSpurious,   \* spurious returns from pthread_cond_wait
    CanKill        \* whether dreamcast_kill happens in the behaviour

ASSUME MaxOps \in Nat /\ MaxSpurious \in Nat /\ CanKill \in BOOLEAN

VARIABLES
    pending,       \* flags whose not_X atomic_flag is clear
    lock,          \* holder of gfx_thread_work_lock
    gfx_pc,        \* where gfx_main is
    emu_pc,        \* where the emulation thread is
    fb_out,        \* fb_out /= NULL
    running,       \* dc_is_running()
    ops,           \* calls made so far by the emulation thread
    spurious,      \* spurious wakeups so far
    grabbed        \* history: pixels grabbed for the current read

vars == <<pending, lock, gfx_pc, emu_pc, fb_out, running, ops, spurious,
          grabbed>>

Flags == {"redraw", "expose", "fb", "geo"}

\* The requests gfx_thread_redraw, _expose and _render_geo_buf make.
Requests == {"redraw", "expose", "geo"}

-----------------------------------------------------------------------------
(***************************************************************************)
(* Initial state: the four flags are ATOMIC_FLAG_INIT (clear), then       *)
(* gfx_thread_launch sets not_pending_redraw and not_reading_framebuffer  *)
(* and starts gfx_main.                                                    *)
(***************************************************************************)
Init ==
    /\ pending = Flags \ {"redraw", "fb"}
    /\ lock = "none"
    /\ gfx_pc = "init"
    /\ emu_pc = "idle"
    /\ fb_out = FALSE
    /\ running = TRUE
    /\ ops = 0
    /\ spurious = 0
    /\ grabbed = FALSE

\* pthread_cond_signal on gfx_thread_work_condition: wakes gfx_main if it
\* is waiting, is lost otherwise.
SignalWork == IF gfx_pc = "waiting" THEN "reacquire" ELSE gfx_pc

-----------------------------------------------------------------------------
(* gfx_main *)

\* gfx_main takes the work lock after the OpenGL set-up.
GfxLock ==
    /\ gfx_pc = "init"
    /\ lock = "none"
    /\ lock' = "gfx"
    /\ gfx_pc' = "run_once"
    /\ UNCHANGED <<pending, emu_pc, fb_out, running, ops, spurious, grabbed>>

(***************************************************************************)
(* gfx_thread_run_once: test_and_set each flag in turn and serve it.  The *)
(* framebuffer branch grabs the pixels into fb_out, sets fb_out = NULL    *)
(* and signals fb_read_condition.                                         *)
(***************************************************************************)
\* Mutant: the framebuffer branch forgets pthread_cond_signal.
FbServeNoSignal ==
    /\ fb_out' = FALSE
    /\ grabbed' = TRUE
    /\ UNCHANGED emu_pc

FbServe ==
    /\ fb_out' = FALSE
    /\ grabbed' = TRUE
    /\ emu_pc' = IF emu_pc = "fbwait" THEN "fbreacq" ELSE emu_pc

gfx_thread_run_once ==
    /\ gfx_pc = "run_once"
    /\ pending' = {}
    /\ IF "fb" \in pending THEN FbServe ELSE UNCHANGED <<fb_out, grabbed, emu_pc>>
    /\ gfx_pc' = "wait"
    /\ UNCHANGED <<lock, running, ops, spurious>>

\* pthread_cond_wait(&gfx_thread_work_condition, ...) releases the lock.
GfxWait ==
    /\ gfx_pc = "wait"
    /\ lock' = "none"
    /\ gfx_pc' = "waiting"
    /\ UNCHANGED <<pending, emu_pc, fb_out, running, ops, spurious, grabbed>>

GfxSpuriousWakeup ==
    /\ gfx_pc = "waiting"
    /\ spurious < MaxSpurious
    /\ spurious' = spurious + 1
    /\ gfx_pc' = "reacquire"
    /\ UNCHANGED <<pending, lock, emu_pc, fb_out, running, ops, grabbed>>

\* pthread_cond_wait returns with the lock held; the do-while tests
\* dc_is_running() and either runs again or leaves the loop.
GfxReacquire ==
    /\ gfx_pc = "reacquire"
    /\ lock = "none"
    /\ lock' = "gfx"
    /\ gfx_pc' = IF running THEN "run_once" ELSE "exit"
    /\ UNCHANGED <<pending, emu_pc, fb_out, running, ops, spurious, grabbed>>

\* After the loop: unlock, then test_and_set the redraw, framebuffer and
\* geo_buf flags only to print what was left pending, and exit.
GfxExit ==
    /\ gfx_pc = "exit"
    /\ lock' = "none"
    /\ pending' = pending \ {"redraw", "fb", "geo"}
    /\ gfx_pc' = "done"
    /\ UNCHANGED <<emu_pc, fb_out, running, ops, spurious, grabbed>>

-----------------------------------------------------------------------------
(* The emulation thread *)

Request(f) ==
    /\ emu_pc = "idle"
    /\ ops < MaxOps
    /\ ops' = ops + 1
    /\ pending' = pending \cup {f}
    /\ emu_pc' = "notify"
    /\ UNCHANGED <<lock, gfx_pc, fb_out, running, spurious, grabbed>>

\* Mutant: signal without taking gfx_thread_work_lock.
NotifyUnlocked ==
    /\ emu_pc = "notify"
    /\ gfx_pc' = SignalWork
    /\ emu_pc' = "idle"
    /\ UNCHANGED <<pending, lock, fb_out, running, ops, spurious, grabbed>>

\* gfx_thread_notify_wake_up: lock, signal the work condition, unlock.
gfx_thread_notify_wake_up ==
    /\ emu_pc = "notify"
    /\ lock = "none"
    /\ gfx_pc' = SignalWork
    /\ emu_pc' = "idle"
    /\ UNCHANGED <<pending, lock, fb_out, running, ops, spurious, grabbed>>

(***************************************************************************)
(* gfx_thread_read_framebuffer, up to its first wait: lock, set fb_out,   *)
(* clear not_reading_framebuffer, signal the work condition, and (fb_out  *)
(* being non-NULL) wait on fb_read_condition, which releases the lock.   *)
(***************************************************************************)
gfx_thread_read_framebuffer ==
    /\ emu_pc = "idle"
    /\ ops < MaxOps
    /\ lock = "none"
    /\ ops' = ops + 1
    /\ fb_out' = TRUE
    /\ grabbed' = FALSE
    /\ pending' = pending \cup {"fb"}
    /\ gfx_pc' = SignalWork
    /\ emu_pc' = "fbwait"
    /\ UNCHANGED <<lock, running, spurious>>

EmuSpuriousWakeup ==
    /\ emu_pc = "fbwait"
    /\ spurious < MaxSpurious
    /\ spurious' = spurious + 1
    /\ emu_pc' = "fbreacq"
    /\ UNCHANGED <<pending, lock, gfx_pc, fb_out, running, ops, grabbed>>

\* Mutant: `if (fb_out)` instead of `while (fb_out)`.
FbReacquireNoLoop ==
    /\ emu_pc = "fbreacq"
    /\ lock = "none"
    /\ emu_pc' = "idle"
    /\ UNCHANGED <<pending, lock, gfx_pc, fb_out, running, ops, spurious, grabbed>>

\* Back from pthread_cond_wait with the lock: while (fb_out) wait again,
\* else unlock and return.
FbReacquire ==
    /\ emu_pc = "fbreacq"
    /\ lock = "none"
    /\ emu_pc' = IF fb_out THEN "fbwait" ELSE "idle"
    /\ UNCHANGED <<pending, lock, gfx_pc, fb_out, running, ops, spurious, grabbed>>

\* dreamcast_kill, from the window thread: dc_is_running() becomes false.
dreamcast_kill ==
    /\ CanKill
    /\ running
    /\ running' = FALSE
    /\ UNCHANGED <<pending, lock, gfx_pc, emu_pc, fb_out, ops, spurious, grabbed>>

-----------------------------------------------------------------------------
GfxStep ==
    \/ GfxLock \/ gfx_thread_run_once \/ GfxWait \/ GfxReacquire \/ GfxExit

Next ==
    \/ GfxStep
    \/ GfxSpuriousWakeup
    \/ \E f \in Requests : Request(f)
    \/ gfx_thread_notify_wake_up
    \/ gfx_thread_read_framebuffer
    \/ EmuSpuriousWakeup
    \/ FbReacquire
    \/ dreamcast_kill

(***************************************************************************)
(* Fairness: a runnable thread is eventually scheduled, so every step of  *)
(* gfx_main and every step that finishes a call the emulation thread has *)
(* begun is weakly fair.  Whether the emulation thread makes a call, a    *)
(* spurious wakeup and dreamcast_kill are not: nothing obliges them.      *)
(***************************************************************************)
Fairness ==
    /\ WF_vars(GfxStep)
    /\ WF_vars(gfx_thread_notify_wake_up)
    /\ WF_vars(FbReacquire)

Spec == Init /\ [][Next]_vars /\ Fairness

-----------------------------------------------------------------------------
(* Properties *)

TypeOK ==
    /\ pending \subseteq Flags
    /\ lock \in {"none", "gfx"}
    /\ gfx_pc \in {"init", "run_once", "wait", "waiting", "reacquire", "exit", "done"}
    /\ emu_pc \in {"idle", "notify", "fbwait", "fbreacq"}
    /\ fb_out \in BOOLEAN /\ running \in BOOLEAN
    /\ ops \in 0..MaxOps /\ spurious \in 0..MaxSpurious
    /\ grabbed \in BOOLEAN

\* No lost wakeup: while the emulator runs, a redraw, expose or geo_buf
\* request is eventually served by gfx_thread_run_once.
\* gfx_thread_notify_wake_up signals under the work lock, which gfx_main
\* holds from run_once until it waits, so the signal cannot fall between
\* the flag test and the wait.
RequestServed ==
    \A f \in Requests : f \in pending ~> (f \notin pending \/ ~running)

\* While the emulator runs, a caller of gfx_thread_read_framebuffer
\* waiting on fb_read_condition is eventually let go.
ReaderServedWhileRunning ==
    emu_pc = "fbwait" ~> (emu_pc = "idle" \/ ~running)

\* gfx_thread_read_framebuffer returns, whatever dreamcast_kill does.
ReaderServed == emu_pc = "fbwait" ~> emu_pc = "idle"

\* gfx_thread_read_framebuffer returns only once gfx_thread_run_once has
\* grabbed the pixels into its buffer, spurious wakeups notwithstanding
\* (the while (fb_out) loop).
ReaderGetsFrame ==
    [][emu_pc = "fbreacq" /\ emu_pc' = "idle" => grabbed]_vars
=============================================================================
