----------------------------- MODULE IoThread ------------------------------
(***************************************************************************)
(* The I/O thread of src/src/io/io_thread.c and the main thread that      *)
(* launches it and kicks it.                                               *)
(*                                                                         *)
(*  - main: io_thread_launch (lock io_thread_create_mutex, pthread_create,*)
(*    wait once on io_thread_create_condition, unlock), then, while the   *)
(*    emulator runs, io_thread_kick (load io_thread_running, then         *)
(*    event_active on the work event);                                    *)
(*  - io: io_main, which creates the event base and the work event under  *)
(*    the mutex, signals, sets io_thread_running, then runs the event     *)
(*    loop until io_work_callback finds !dc_is_running() and breaks it,   *)
(*    and finally clears io_thread_running and frees the event;           *)
(*  - the window thread's dreamcast_kill.                                 *)
(*                                                                         *)
(* io_thread_create_mutex is held by one thread at a time only across    *)
(* steps nothing else can observe (launch up to its wait, io_main up to  *)
(* its unlock, launch from its wakeup to its unlock); those steps are     *)
(* merged, so the mutex needs no variable.  Spurious returns from         *)
(* pthread_cond_wait are bounded by MaxSpurious.                          *)
(***************************************************************************)
EXTENDS Naturals

CONSTANTS
    MaxKicks,      \* io_thread_kick calls made by the main thread
    MaxSpurious,   \* spurious returns from pthread_cond_wait
    CanKill        \* whether dreamcast_kill happens in the behaviour

ASSUME MaxKicks \in Nat /\ MaxSpurious \in Nat /\ CanKill \in BOOLEAN

VARIABLES
    main_pc,       \* where the main thread is
    io_pc,         \* where io_main is
    event,         \* io_thread_work_event is allocated
    active,        \* event_active was called and the callback has not run
    io_running,    \* io_thread_running
    dc_running,    \* dc_is_running()
    kicks,         \* io_thread_kick calls so far
    spurious       \* spurious wakeups so far

vars == <<main_pc, io_pc, event, active, io_running, dc_running, kicks,
          spurious>>

Init ==
    /\ main_pc = "launch"
    /\ io_pc = "none"
    /\ event = FALSE
    /\ active = FALSE
    /\ io_running = FALSE
    /\ dc_running = TRUE
    /\ kicks = 0
    /\ spurious = 0

-----------------------------------------------------------------------------
(* io_thread_launch, on the main thread *)

\* Lock the create mutex, start io_main, then pthread_cond_wait, which
\* releases the mutex.  io_main cannot take the mutex before the wait.
MainLaunch ==
    /\ main_pc = "launch"
    /\ io_pc' = "lock"
    /\ main_pc' = "waiting"
    /\ UNCHANGED <<event, active, io_running, dc_running, kicks, spurious>>

MainSpuriousWakeup ==
    /\ main_pc = "waiting"
    /\ spurious < MaxSpurious
    /\ spurious' = spurious + 1
    /\ main_pc' = "reacquire"
    /\ UNCHANGED <<io_pc, event, active, io_running, dc_running, kicks>>

\* pthread_cond_wait returns holding the mutex; launch unlocks and returns
\* (there is no predicate to re-test).
MainReturn ==
    /\ main_pc = "reacquire"
    /\ main_pc' = "run"
    /\ UNCHANGED <<io_pc, event, active, io_running, dc_running, kicks, spurious>>

-----------------------------------------------------------------------------
(* io_thread_kick, called by the emulation loop *)

\* Mutant: the kick counter has no bound (an overrun).
KickLoadUnbounded ==
    /\ main_pc = "run"
    /\ dc_running
    /\ kicks' = kicks + 1
    /\ main_pc' = IF io_running THEN "activate" ELSE "run"
    /\ UNCHANGED <<io_pc, event, active, io_running, dc_running, spurious>>

\* atomic_load(&io_thread_running): go on to event_active only if set.
KickLoad ==
    /\ main_pc = "run"
    /\ dc_running
    /\ kicks < MaxKicks
    /\ kicks' = kicks + 1
    /\ main_pc' = IF io_running THEN "activate" ELSE "run"
    /\ UNCHANGED <<io_pc, event, active, io_running, dc_running, spurious>>

\* event_active(io_thread_work_event, 0, 0).
KickActivate ==
    /\ main_pc = "activate"
    /\ active' = TRUE
    /\ main_pc' = "run"
    /\ UNCHANGED <<io_pc, event, io_running, dc_running, kicks, spurious>>

-----------------------------------------------------------------------------
(* io_main *)

\* Mutant: io_main forgets pthread_cond_signal.
IoStartNoSignal ==
    /\ io_pc = "lock"
    /\ event' = TRUE
    /\ io_running' = TRUE
    /\ io_pc' = "loop"
    /\ UNCHANGED <<main_pc, active, dc_running, kicks, spurious>>

(***************************************************************************)
(* io_main up to the event loop, all under the create mutex:              *)
(* event_base_new, event_new (the work event), pthread_cond_signal,       *)
(* atomic_store(&io_thread_running, true), serial_server_init, unlock.    *)
(***************************************************************************)
IoStart ==
    /\ io_pc = "lock"
    /\ event' = TRUE
    /\ io_running' = TRUE
    /\ main_pc' = IF main_pc = "waiting" THEN "reacquire" ELSE main_pc
    /\ io_pc' = "loop"
    /\ UNCHANGED <<active, dc_running, kicks, spurious>>

\* Mutant: io_work_callback without event_base_loopbreak.
IoCallbackNoBreak ==
    /\ io_pc = "loop"
    /\ active
    /\ active' = FALSE
    /\ UNCHANGED <<main_pc, io_pc, event, io_running, dc_running, kicks, spurious>>

\* event_base_loop dispatches the active work event to io_work_callback,
\* which breaks the loop if !dc_is_running(), then runs the serial server.
io_work_callback ==
    /\ io_pc = "loop"
    /\ active
    /\ active' = FALSE
    /\ io_pc' = IF dc_running THEN "loop" ELSE "broken"
    /\ UNCHANGED <<main_pc, event, io_running, dc_running, kicks, spurious>>

\* event_base_loop has returned: leave the while loop if !dc_is_running().
IoLoopReturn ==
    /\ io_pc = "broken"
    /\ io_pc' = IF dc_running THEN "loop" ELSE "exit"
    /\ UNCHANGED <<main_pc, event, active, io_running, dc_running, kicks, spurious>>

\* Mutant: the two statements swapped, event_free before the store.
IoStopRunningAfterFree ==
    /\ io_pc = "exit"
    /\ event' = FALSE
    /\ active' = FALSE
    /\ io_pc' = "free"
    /\ UNCHANGED <<main_pc, io_running, dc_running, kicks, spurious>>

\* atomic_store(&io_thread_running, false).
IoStopRunning ==
    /\ io_pc = "exit"
    /\ io_running' = FALSE
    /\ io_pc' = "free"
    /\ UNCHANGED <<main_pc, event, active, dc_running, kicks, spurious>>

\* event_free(io_thread_work_event), serial_server_cleanup,
\* event_base_free, pthread_exit.  A pending activation goes with the
\* event.
IoFreeEvent ==
    /\ io_pc = "free"
    /\ event' = FALSE
    /\ active' = FALSE
    /\ io_pc' = "done"
    /\ UNCHANGED <<main_pc, io_running, dc_running, kicks, spurious>>

\* dreamcast_kill, from the window thread.
dreamcast_kill ==
    /\ CanKill
    /\ dc_running
    /\ dc_running' = FALSE
    /\ UNCHANGED <<main_pc, io_pc, event, active, io_running, kicks, spurious>>

-----------------------------------------------------------------------------
IoStep ==
    IoStart \/ io_work_callback \/ IoLoopReturn \/ IoStopRunning \/ IoFreeEvent

Next ==
    \/ MainLaunch \/ MainSpuriousWakeup \/ MainReturn
    \/ KickLoad \/ KickActivate
    \/ IoStep
    \/ dreamcast_kill

(***************************************************************************)
(* Fairness: the I/O thread and a main thread in the middle of a call are *)
(* runnable and get scheduled.  Whether the emulation loop kicks, a       *)
(* spurious wakeup and dreamcast_kill are not obliged to happen.          *)
(***************************************************************************)
Fairness ==
    /\ WF_vars(IoStep)
    /\ WF_vars(MainLaunch)
    /\ WF_vars(MainReturn)
    /\ WF_vars(KickActivate)

Spec == Init /\ [][Next]_vars /\ Fairness

-----------------------------------------------------------------------------
(* Properties *)

TypeOK ==
    /\ main_pc \in {"launch", "waiting", "reacquire", "run", "activate"}
    /\ io_pc \in {"none", "lock", "loop", "broken", "exit", "free",
                  "done"}
    /\ {event, active, io_running, dc_running} \subseteq BOOLEAN
    /\ kicks \in 0..MaxKicks /\ spurious \in 0..MaxSpurious

\* io_thread_running is set only while the work event exists: io_main
\* stores true after event_new and, on the way out, false before
\* event_free, so a kick that loads io_thread_running after the free sees
\* false.  This is what io_thread_kick relies on; it does not close the
\* window of a kick that loaded true just before the store
\* (NoUseAfterFree).
RunningImpliesEvent == io_running => event

\* io_thread_launch returns: the main thread waiting for io_main is
\* eventually let go (the signal cannot be lost, because io_main can only
\* take the mutex once the main thread waits).
LaunchReturns == main_pc = "waiting" ~> main_pc = "run"

\* Once the emulator is stopped and a kick is pending, io_main leaves its
\* event loop and frees its resources (io_work_callback breaks the loop).
IoTerminates == (~dc_running /\ active) ~> io_pc = "done"

\* io_thread_kick never calls event_active on a freed work event.
NoUseAfterFree == main_pc = "activate" => event

\* io_thread_launch returns only after io_main has created the event base
\* and the work event.
LaunchedAfterCreate == main_pc \in {"run", "activate"} => event
=============================================================================
