----------------------------- MODULE TimersAbs -----------------------------
(***************************************************************************)
(* What the dynamic timer list of kernel/sched.c promises its callers      *)
(* (the network and floppy drivers): a set of pending timers, each with    *)
(* the ticks it still has to wait, fired in deadline order and, among      *)
(* equal deadlines, in the order in which they were added.                 *)
(*                                                                         *)
(* The clock of this specification is the virtual one of the code: it      *)
(* stands still while an expired timer has not been run ("lost_ticks").    *)
(***************************************************************************)
EXTENDS Integers

CONSTANTS Timers,    \* the timer_list structures of the drivers
          Requests   \* the delays they ask for, in ticks

VARIABLES remaining, \* ticks a timer still has to wait; NotPending if not added
          ahead      \* the pending timers that have to fire before a timer does

avars == <<remaining, ahead>>

NotPending == -1

Pending == {t \in Timers : remaining[t] # NotPending}

AbsInit == /\ remaining = [t \in Timers |-> NotPending]
           /\ ahead = [t \in Timers |-> {}]

AbsAdd(t, v) ==
    /\ t \notin Pending
    /\ remaining' = [remaining EXCEPT ![t] = v]
    /\ ahead' = [u \in Timers |->
                    IF u = t THEN {s \in Pending : remaining[s] <= v}
                    ELSE IF u \in Pending /\ remaining[u] > v
                           THEN ahead[u] \cup {t}
                           ELSE ahead[u]]

Drop(t) == /\ remaining' = [remaining EXCEPT ![t] = NotPending]
           /\ ahead' = [u \in Timers |-> IF u = t THEN {} ELSE ahead[u] \ {t}]

AbsDel(t) == t \in Pending /\ Drop(t)

AbsFire(t) == /\ t \in Pending
              /\ remaining[t] = 0
              /\ ahead[t] = {}
              /\ Drop(t)

\* All pending timers advance together, or none does because one is overdue.
AbsTick == /\ \A t \in Pending : remaining[t] > 0
           /\ remaining' = [t \in Timers |-> IF t \in Pending
                                                THEN remaining[t] - 1
                                                ELSE NotPending]
           /\ UNCHANGED ahead

AbsNext == \/ \E t \in Timers, v \in Requests : AbsAdd(t, v)
           \/ \E t \in Timers : AbsDel(t) \/ AbsFire(t)
           \/ AbsTick

AbsSpec == AbsInit /\ [][AbsNext]_avars
=============================================================================
