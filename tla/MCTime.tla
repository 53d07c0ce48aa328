------------------------------- MODULE MCTime -------------------------------
(***************************************************************************)
(* The scheduler for TLC, with sleeps and priorities or with alarms: view  *)
(* says which.                                                             *)
(***************************************************************************)
EXTENDS Sched, TLC

CONSTANTS a, b

VARIABLE view

AL == INSTANCE Sched WITH MaxPriority <- 1, Signalled <- {}, Priorities <- {}, AlarmValues <- {1}, Timeouts <- {}

Pos2 == a :> 1 @@ b :> 2

TimeInit == \/ view = "sleeps" /\ Init
            \/ view = "alarms" /\ AL!Init

TimeNext == \/ view = "sleeps" /\ Next /\ UNCHANGED view
            \/ view = "alarms" /\ AL!Next /\ UNCHANGED view

\* The fairness of Sched, whose ticks are bounded where there are alarms.
TimeFairness == /\ WF_vars(view = "sleeps" /\ do_timer)
                /\ WF_vars(view = "alarms" /\ AL!do_timer)
                /\ WF_vars(Kernel)
                /\ WF_vars(sys_idle)

TimeSpec == TimeInit /\ [][TimeNext]_<<view, vars>> /\ TimeFairness

\* NoStarvation of Sched: every task that is runnable, or whose sleep a signal or a
\* timeout ends, gets the processor.
NobodyStarves == view = "sleeps" => NoStarvation
=============================================================================
