------------------------------ MODULE DcMain --------------------------------
(***************************************************************************)
(* The thread structure of main() in src/src/main.c: the main thread      *)
(* launches the graphics thread, then the I/O thread (waiting for its     *)
(* start handshake), runs the emulator (dreamcast_run, which calls into   *)
(* both threads), and after dreamcast_run returns joins the graphics      *)
(* thread, then the window thread, then the I/O thread.                   *)
(*                                                                         *)
(* GfxThread and IoThread are composed as they are: the emulation thread  *)
(* of GfxThread and the main thread of IoThread are this one main thread, *)
(* so it makes one call at a time, and dc_is_running() is one variable    *)
(* that the window thread's dreamcast_kill clears for both.               *)
(***************************************************************************)
EXTENDS Naturals

CONSTANTS
    MaxOps,        \* calls into gfx_thread.c made by dreamcast_run
    MaxKicks,      \* io_thread_kick calls made by dreamcast_run
    MaxSpurious,   \* spurious wakeups, per thread module
    CanKill        \* whether dreamcast_kill happens in the behaviour

VARIABLES
    phase,         \* where main() is
    dc_running,    \* dc_is_running(), shared by both threads
    \* GfxThread
    pending, lock, gfx_pc, emu_pc, fb_out, ops, gfx_spurious, grabbed,
    \* IoThread
    main_pc, io_pc, event, active, io_running, kicks, io_spurious

gfxVars == <<pending, lock, gfx_pc, emu_pc, fb_out, ops, gfx_spurious, grabbed>>
ioVars == <<main_pc, io_pc, event, active, io_running, kicks, io_spurious>>
vars == <<phase, dc_running, gfxVars, ioVars>>

G == INSTANCE GfxThread WITH running <- dc_running, spurious <- gfx_spurious
I == INSTANCE IoThread WITH spurious <- io_spurious

Phases == {"gfx_launch", "io_launch", "run", "gfx_join", "win_join",
           "io_join", "exit"}

(***************************************************************************)
(* Initial state: framebuffer_init and win_thread_launch are done.  The   *)
(* graphics flags already hold what gfx_thread_launch stores before       *)
(* pthread_create; nothing reads them before that.                        *)
(***************************************************************************)
Init ==
    /\ phase = "gfx_launch"
    /\ G!Init
    /\ I!Init

\* A step of GfxThread or IoThread alone.
GfxOnly(A) == A /\ UNCHANGED <<phase, ioVars>>
IoOnly(A) == A /\ UNCHANGED <<phase, gfxVars>>

-----------------------------------------------------------------------------
(* main() *)

\* gfx_thread_launch: pthread_create of gfx_main.
gfx_thread_launch ==
    /\ phase = "gfx_launch"
    /\ phase' = "io_launch"
    /\ UNCHANGED <<dc_running, gfxVars, ioVars>>

\* io_thread_launch, up to its return (IoThread's main-thread steps).
IoLaunchStep ==
    /\ phase = "io_launch"
    /\ IoOnly(I!MainLaunch \/ I!MainReturn)

IoLaunchSpurious == phase = "io_launch" /\ IoOnly(I!MainSpuriousWakeup)

\* io_thread_launch has returned: call dreamcast_run.
dreamcast_run ==
    /\ phase = "io_launch"
    /\ main_pc = "run"
    /\ phase' = "run"
    /\ UNCHANGED <<dc_running, gfxVars, ioVars>>

\* dreamcast_run calls gfx_thread.c (when not inside io_thread_kick) ...
EmuGfxCall ==
    /\ phase = "run"
    /\ main_pc = "run"
    /\ GfxOnly(\/ \E f \in G!Requests : G!Request(f)
               \/ G!gfx_thread_read_framebuffer)

\* ... and io_thread_kick (when not inside a gfx_thread.c call).
EmuKick ==
    /\ phase = "run"
    /\ emu_pc = "idle"
    /\ IoOnly(I!KickLoad)

\* The second halves of calls already begun.
EmuGfxReturn == GfxOnly(G!gfx_thread_notify_wake_up \/ G!FbReacquire)
EmuSpurious == GfxOnly(G!EmuSpuriousWakeup)
EmuKickReturn == IoOnly(I!KickActivate)

\* dreamcast_run returns once dc_is_running() is false, between calls.
DreamcastRunReturn ==
    /\ phase = "run"
    /\ ~dc_running
    /\ emu_pc = "idle"
    /\ main_pc = "run"
    /\ phase' = "gfx_join"
    /\ UNCHANGED <<dc_running, gfxVars, ioVars>>

\* gfx_thread_join, win_thread_join, io_thread_join: each returns once its
\* thread has exited (the window thread is not modelled and returns).
gfx_thread_join ==
    /\ phase = "gfx_join"
    /\ gfx_pc = "done"
    /\ phase' = "win_join"
    /\ UNCHANGED <<dc_running, gfxVars, ioVars>>

win_thread_join ==
    /\ phase = "win_join"
    /\ phase' = "io_join"
    /\ UNCHANGED <<dc_running, gfxVars, ioVars>>

io_thread_join ==
    /\ phase = "io_join"
    /\ io_pc = "done"
    /\ phase' = "exit"
    /\ UNCHANGED <<dc_running, gfxVars, ioVars>>

-----------------------------------------------------------------------------
(* The other threads *)

\* gfx_main runs once gfx_thread_launch has created it.
GfxMain == phase /= "gfx_launch" /\ GfxOnly(G!GfxStep)
GfxSpurious == phase /= "gfx_launch" /\ GfxOnly(G!GfxSpuriousWakeup)

IoMain == IoOnly(I!IoStep)

\* dreamcast_kill from the window thread.
dreamcast_kill == G!dreamcast_kill /\ UNCHANGED <<phase, ioVars>>

MainStep ==
    \/ gfx_thread_launch \/ IoLaunchStep \/ dreamcast_run
    \/ DreamcastRunReturn \/ gfx_thread_join \/ win_thread_join
    \/ io_thread_join

Next ==
    \/ MainStep
    \/ IoLaunchSpurious
    \/ EmuGfxCall \/ EmuKick \/ EmuGfxReturn \/ EmuSpurious \/ EmuKickReturn
    \/ GfxMain \/ GfxSpurious \/ IoMain
    \/ dreamcast_kill

(***************************************************************************)
(* Fairness, as in the two thread modules: the steps of gfx_main and      *)
(* io_main and the second half of a call already begun are weakly fair,   *)
(* and so is main() between calls (launching, returning from              *)
(* dreamcast_run once stopped, joining).  The calls dreamcast_run makes,  *)
(* spurious wakeups and the kill are not.                                 *)
(***************************************************************************)
Fairness ==
    /\ WF_vars(MainStep)
    /\ WF_vars(EmuGfxReturn)
    /\ WF_vars(EmuKickReturn)
    /\ WF_vars(GfxMain)
    /\ WF_vars(IoMain)

Spec == Init /\ [][Next]_vars /\ Fairness

-----------------------------------------------------------------------------
(* Properties *)

TypeOK == phase \in Phases /\ G!TypeOK /\ I!TypeOK

\* The properties of the two thread modules, in the composed system.
RequestServed == G!RequestServed
ReaderServedWhileRunning == G!ReaderServedWhileRunning
ReaderGetsFrame == G!ReaderGetsFrame
LaunchReturns == I!LaunchReturns
IoTerminates == I!IoTerminates
RunningImpliesEvent == I!RunningImpliesEvent
=============================================================================
