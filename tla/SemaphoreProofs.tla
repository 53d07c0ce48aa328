-------------------------- MODULE SemaphoreProofs --------------------------
(***************************************************************************)
(* Mutual exclusion and the absence of lost wake-ups for any number of     *)
(* processes.  The inductive invariant adds to them that the count and the *)
(* holder agree, and that only the process on the processor is in the      *)
(* middle of its code.                                                     *)
(***************************************************************************)
EXTENDS Semaphore, TLAPS

\* Who is between two sleep points has the processor.
OnCpu == \A p \in Procs : pc[p] \in {"queued", "test", "take", "hold"} => cpu = p

\* The count is 1 exactly as long as nobody holds the semaphore, and it does not
\* change between the test of down and the decrement.
CountMeansFree ==
    /\ count = 1 => \A p \in Procs : pc[p] \notin {"hold", "io"}
    /\ \A p \in Procs : pc[p] = "take" => count = 1

Inv == TypeOK /\ OnCpu /\ CountMeansFree /\ MutualExclusion /\ QueueExact /\ NoLostWakeup

LEMMA InvInit == Init => Inv
BY SemaphoreAssumption
DEF Init, Inv, TypeOK, Labels, OnCpu, CountMeansFree, MutualExclusion, QueueExact, NoLostWakeup

LEMMA InvStep == Inv /\ [Next]_vars => Inv'
<1> SUFFICES ASSUME Inv, [Next]_vars
             PROVE  Inv'
    OBVIOUS
<1> USE SemaphoreAssumption DEF Inv, TypeOK, Labels, OnCpu, CountMeansFree, MutualExclusion,
        QueueExact, NoLostWakeup, Goes, Stops, Starts, Becomes
<1>1. ASSUME NEW p \in Procs, down(p)
      PROVE  Inv'
    BY <1>1 DEF down
<1>2. ASSUME NEW p \in Procs, down_set(p)
      PROVE  Inv'
    BY <1>2 DEF down_set
<1>3. ASSUME NEW p \in Procs, down_sleep(p)
      PROVE  Inv'
    BY <1>3 DEF down_sleep
<1>4. ASSUME NEW p \in Procs, down_woken(p)
      PROVE  Inv'
    BY <1>4 DEF down_woken
<1>5. ASSUME NEW p \in Procs, down_leave(p)
      PROVE  Inv'
    BY <1>5 DEF down_leave
<1>6. ASSUME NEW p \in Procs, take(p)
      PROVE  Inv'
    BY <1>6 DEF take
<1>7. ASSUME NEW p \in Procs, hold_sleep(p) \/ io_done(p) \/ hold_woken(p)
      PROVE  Inv'
    BY <1>7 DEF hold_sleep, io_done, hold_woken
<1>8. ASSUME NEW p \in Procs, up(p)
      PROVE  Inv'
    BY <1>8 DEF up, Woken
<1>9. CASE UNCHANGED vars
    BY <1>9 DEF vars
<1>10. QED
    BY <1>1, <1>2, <1>3, <1>4, <1>5, <1>6, <1>7, <1>8, <1>9 DEF Next, Step

LEMMA Inductive == Spec => []Inv
BY InvInit, InvStep, PTL DEF Spec

\* At most one process is between down and up, for any number of processes.
THEOREM SemaphoreExcludes == Spec => []MutualExclusion
<1>1. Inv => MutualExclusion
    BY DEF Inv
<1>2. QED
    BY <1>1, Inductive, PTL

\* A free semaphore has no sleeper that nobody woke, for any number of processes.
THEOREM NoWakeupLost == Spec => []NoLostWakeup
<1>1. Inv => NoLostWakeup
    BY DEF Inv
<1>2. QED
    BY <1>1, Inductive, PTL
=============================================================================
