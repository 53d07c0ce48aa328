---------------------------- MODULE SchedProofs ----------------------------
(***************************************************************************)
(* Proofs about Sched for every set of tasks, every largest priority and   *)
(* every bound: TypeOK, OnlyRunnableRuns, CounterBounded, AlarmKeepsTime.  *)
(* Their conjunction with NoAlarms is inductive.                           *)
(***************************************************************************)
EXTENDS Sched, TLAPS

\* Without setitimer no alarm is armed, so that uncounted ticks do no harm.
NoAlarms == AlarmValues = {} => \A t \in Tasks : it_real_value[t] = 0

\* A recharge halves before it adds: a counter below twice the bound stays below it.
LEMMA RechargeBound ==
    ASSUME NEW c \in Nat, NEW p \in 1..MaxPriority, c < 2 * MaxPriority
    PROVE  (c \div 2) + p \in Nat /\ (c \div 2) + p < 2 * MaxPriority
<1> MaxPriority \in Nat \ {0}
    BY SchedAssumption
<1> c \div 2 \in Nat /\ c \div 2 < MaxPriority
    OBVIOUS
<1> QED
    OBVIOUS

\* The closed form of the do-while loop of schedule() steps over ticks.
LEMMA StepsOver ==
    ASSUME NEW d \in Nat, NEW i \in Nat \ {0}
    PROVE  /\ (d \div i) + 1 \in Nat
           /\ ((d \div i) + 1) * i \in Nat
           /\ ((d \div i) + 1) * i > d
<1> DEFINE q == d \div i
           r == d % i
<1>1. q \in Nat /\ r \in 0..(i - 1) /\ d = i * q + r
    OBVIOUS
<1>2. i * q \in Nat /\ (q + 1) * i = i * q + i
    BY <1>1
<1> QED
    BY <1>1, <1>2

\* What schedule() leaves of an alarm is a natural number, and both it and the
\* history advance by the same whole number of periods.
LEMMA RearmedType ==
    ASSUME TypeOK, NEW t \in Tasks
    PROVE  /\ Periods(t, itimer_ticks) * it_real_incr[t] \in Nat
           /\ Rearmed(t, itimer_ticks) \in Nat
           /\ Rearmed(t, itimer_ticks) # 0 =>
                 Rearmed(t, itimer_ticks) = it_real_value[t] - itimer_ticks
                                            + Periods(t, itimer_ticks) * it_real_incr[t]
<1> DEFINE v == it_real_value[t]
           i == it_real_incr[t]
           n == itimer_ticks
<1>1. v \in Nat /\ i \in Nat /\ n \in Nat
    BY DEF TypeOK
<1>2. CASE Due(t, n) /\ i # 0
  <2>1. n - v \in Nat /\ i \in Nat \ {0} /\ v # 0 /\ n # 0
      BY <1>1, <1>2 DEF Due
  <2>2. Periods(t, n) = ((n - v) \div i) + 1
      BY <1>2 DEF Periods
  <2>3. Periods(t, n) * i \in Nat /\ Periods(t, n) * i > n - v
      BY <2>1, <2>2, StepsOver
  <2>4. Rearmed(t, n) = v + Periods(t, n) * i - n
      BY <1>2, <2>1 DEF Rearmed
  <2> HIDE DEF v, i, n
  <2>5. \A p \in Nat : p > n - v => v + p - n \in Nat /\ v + p - n = v - n + p
      BY <1>1
  <2>6. QED
      BY <2>3, <2>4, <2>5 DEF v, i, n
<1>3. CASE ~(Due(t, n) /\ i # 0)
  <2>1. Periods(t, n) = 0 /\ Periods(t, n) * i = 0
      BY <1>1, <1>3 DEF Periods
  <2>2. CASE v = 0 \/ n = 0
      BY <1>1, <2>1, <2>2 DEF Rearmed
  <2>3. CASE v # 0 /\ n # 0 /\ Due(t, n)
      BY <1>1, <1>3, <2>1, <2>3 DEF Rearmed
  <2>4. CASE v # 0 /\ n # 0 /\ ~Due(t, n)
    <3>1. v > n
        BY <1>1, <2>4 DEF Due
    <3>2. Rearmed(t, n) = v + Periods(t, n) * i - n
        BY <2>4 DEF Rearmed
    <3>3. QED
        BY <1>1, <2>1, <3>1, <3>2
  <2>5. QED
      BY <2>2, <2>3, <2>4
<1>4. QED
    BY <1>2, <1>3

LEMMA TypeInit == Init => TypeOK
<1> SUFFICES ASSUME Init
             PROVE  TypeOK
    OBVIOUS
<1>1. signal \in [Tasks -> BOOLEAN] /\ need_resched \in BOOLEAN
    BY Zenon DEF Init
<1>2. counter \in [All -> Nat] /\ priority \in [All -> 1..MaxPriority]
    BY SchedAssumption DEF Init
<1>3. QED
    BY SchedAssumption, <1>1, <1>2 DEF Init, TypeOK, All

LEMMA ScanType ==
    ASSUME TypeOK, schedule_scan
    PROVE  TypeOK'
<1>1. it_real_value' = [t \in Tasks |-> Rearmed(t, itimer_ticks)]
    BY DEF schedule_scan
<1>2. it_real_value' \in [Tasks -> Nat]
    BY <1>1, RearmedType
<1>3. owed' \in [Tasks -> Int]
  <2>1. owed' = [t \in Tasks |-> IF Rearmed(t, itimer_ticks) = 0 THEN 0
                               ELSE owed[t] + Periods(t, itimer_ticks) * it_real_incr[t]]
      BY DEF schedule_scan
  <2>2. \A t \in Tasks : owed[t] \in Int /\ Periods(t, itimer_ticks) * it_real_incr[t] \in Nat
      BY RearmedType DEF TypeOK
  <2>3. QED
      BY <2>1, <2>2
<1>4. itimer_next' \in Nat
  <2> DEFINE rearmed == {Rearmed(t, itimer_ticks) :
                            t \in {u \in Tasks : itimer_ticks # 0 /\ Rearmed(u, itimer_ticks) # 0}}
  <2>1. itimer_next' \in rearmed \cup {ULongMax}
      BY DEF schedule_scan
  <2>2. rearmed \subseteq Nat
      BY RearmedType
  <2>3. QED
      BY <2>1, <2>2, SchedAssumption
<1>5. signal' \in [Tasks -> BOOLEAN]
    BY DEF schedule_scan, TypeOK
<1>6. state' \in [All -> Sleeping \cup {"RUNNING"}]
    BY DEF schedule_scan, TypeOK
<1>7. timeout' \in [Tasks -> Nat \cup {-1}]
    BY DEF schedule_scan, TypeOK
<1>8. QED
    BY <1>2, <1>3, <1>4, <1>5, <1>6, <1>7 DEF schedule_scan, TypeOK

\* Every step keeps the types.
LEMMA TypeStep == TypeOK /\ [Next]_vars => TypeOK'
<1> SUFFICES ASSUME TypeOK, [Next]_vars
             PROVE  TypeOK'
    OBVIOUS
<1> USE SchedAssumption
<1>1. CASE do_timer
    BY <1>1 DEF do_timer, Paid, Spent, TypeOK, All
<1>2. ASSUME NEW t \in Tasks, wake_up(t)
      PROVE  TypeOK'
    BY <1>2 DEF wake_up, TypeOK, All, clock, alarms
<1>3. ASSUME NEW t \in Signalled, send_sig(t)
      PROVE  TypeOK'
    BY <1>3 DEF send_sig, TypeOK, clock, alarms
<1>4. ASSUME NEW s \in Sleeping, NEW d \in Timeouts \cup {-1}, sleep_on(s, d)
      PROVE  TypeOK'
    BY <1>4 DEF sleep_on, TypeOK, All, clock, alarms
<1>5. ASSUME NEW j \in AlarmValues \cup {0}, NEW i \in AlarmValues \cup {0}, setitimer(j, i)
      PROVE  TypeOK'
    BY <1>5 DEF setitimer, Armed, TypeOK, All
<1>6. ASSUME NEW p \in Priorities, sys_nice(p)
      PROVE  TypeOK'
    BY <1>6 DEF sys_nice, TypeOK, All, clock, alarms
<1>7. CASE sys_idle
    BY <1>7 DEF sys_idle, TypeOK, clock, alarms
<1>8. CASE do_signal
    BY <1>8 DEF do_signal, TypeOK, clock, alarms
<1>9. CASE ret_from_sys_call
    BY <1>9 DEF ret_from_sys_call, TypeOK, clock, alarms
<1>10. CASE schedule_scan
    BY <1>10, ScanType
<1>11. CASE schedule_pick
  <2>1. next' \in All
      BY <1>11 DEF schedule_pick, TypeOK, All
  <2>2. counter' \in [All -> Nat]
    <3>1. Recharged \in [All -> Nat]
        BY DEF Recharged, TypeOK
    <3>2. QED
        BY <1>11, <3>1 DEF schedule_pick, TypeOK
  <2>3. QED
      BY <1>11, <2>1, <2>2 DEF schedule_pick, TypeOK, clock, alarms
<1>12. CASE switch_to
    BY <1>12 DEF switch_to, TypeOK, clock, alarms
<1>13. CASE UNCHANGED vars
    BY <1>13 DEF vars, TypeOK
<1>14. QED
    BY <1>1, <1>2, <1>3, <1>4, <1>5, <1>6, <1>7, <1>8, <1>9, <1>10, <1>11, <1>12, <1>13
    DEF Next, Interrupt, Task, Kernel

\* Every reachable state of the scheduler is well typed; in particular no counter
\* that do_timer decrements, and no alarm that schedule() subtracts from, wraps below 0.
THEOREM TypeCorrect == Spec => []TypeOK
BY TypeInit, TypeStep, PTL DEF Spec

-----------------------------------------------------------------------------
LEMMA RunnableStep == TypeOK /\ OnlyRunnableRuns /\ [Next]_vars => OnlyRunnableRuns'
<1> SUFFICES ASSUME TypeOK, OnlyRunnableRuns, [Next]_vars
             PROVE  OnlyRunnableRuns'
    OBVIOUS
<1> USE SchedAssumption DEF OnlyRunnableRuns
<1>1. CASE do_timer
    BY <1>1 DEF do_timer
<1>2. ASSUME NEW t \in Tasks, wake_up(t)
      PROVE  OnlyRunnableRuns'
    BY <1>2 DEF wake_up, TypeOK, All
<1>3. ASSUME NEW t \in Signalled, send_sig(t)
      PROVE  OnlyRunnableRuns'
    BY <1>3 DEF send_sig
<1>4. ASSUME NEW s \in Sleeping, NEW d \in Timeouts \cup {-1}, sleep_on(s, d)
      PROVE  OnlyRunnableRuns'
    BY <1>4 DEF sleep_on, TypeOK, All
<1>5. ASSUME NEW j \in AlarmValues \cup {0}, NEW i \in AlarmValues \cup {0}, setitimer(j, i)
      PROVE  OnlyRunnableRuns'
    BY <1>5 DEF setitimer
<1>6. ASSUME NEW p \in Priorities, sys_nice(p)
      PROVE  OnlyRunnableRuns'
    BY <1>6 DEF sys_nice
<1>7. CASE sys_idle
    BY <1>7 DEF sys_idle
<1>8. CASE do_signal
    BY <1>8 DEF do_signal
<1>9. CASE ret_from_sys_call
    BY <1>9 DEF ret_from_sys_call
<1>10. CASE schedule_scan
    BY <1>10 DEF schedule_scan, All
<1>11. CASE schedule_pick
    BY <1>11 DEF schedule_pick, Best, Runnable
<1>12. CASE switch_to
    BY <1>12 DEF switch_to
<1>13. CASE UNCHANGED vars
    BY <1>13 DEF vars
<1>14. QED
    BY <1>1, <1>2, <1>3, <1>4, <1>5, <1>6, <1>7, <1>8, <1>9, <1>10, <1>11, <1>12, <1>13
    DEF Next, Interrupt, Task, Kernel

\* schedule() never switches to a sleeping task, whatever interrupts come between
\* its choice and switch_to, because they only ever make tasks runnable.
THEOREM RunsOnlyRunnable == Spec => []OnlyRunnableRuns
<1>1. Init => OnlyRunnableRuns
    BY DEF Init, OnlyRunnableRuns, All
<1>2. QED
    BY <1>1, RunnableStep, TypeCorrect, TypeInit, TypeStep, PTL DEF Spec

-----------------------------------------------------------------------------
\* The steps that leave every counter alone.
LEMMA CounterKept ==
    ASSUME CounterBounded, counter' = counter
    PROVE  CounterBounded'
BY DEF CounterBounded

LEMMA CounterStep == TypeOK /\ CounterBounded /\ [Next]_vars => CounterBounded'
<1> SUFFICES ASSUME TypeOK, CounterBounded, [Next]_vars
             PROVE  CounterBounded'
    OBVIOUS
<1>1. CASE do_timer
    BY <1>1, SchedAssumption DEF do_timer, Paid, Spent, TypeOK, All, CounterBounded
<1>2. CASE schedule_pick
  <2>1. \A t \in Tasks : Recharged[t] < 2 * MaxPriority
    <3>1. TAKE t \in Tasks
    <3>2. t \in All /\ t # Idle /\ counter[t] \in Nat /\ priority[t] \in 1..MaxPriority
        BY SchedAssumption DEF TypeOK, All
    <3>3. (counter[t] \div 2) + priority[t] < 2 * MaxPriority
        BY <3>2, RechargeBound DEF CounterBounded
    <3>4. QED
        BY <3>2, <3>3 DEF Recharged
  <2>2. QED
      BY <1>2, <2>1 DEF schedule_pick, CounterBounded
<1>3. CASE ~do_timer /\ ~schedule_pick
  <2>1. counter' = counter
      BY <1>3 DEF Next, Interrupt, Task, Kernel, vars, wake_up, send_sig, sleep_on, setitimer,
         sys_nice, sys_idle, do_signal, ret_from_sys_call, schedule_scan, switch_to
  <2>2. QED
      BY <2>1, CounterKept
<1>4. QED
    BY <1>1, <1>2, <1>3

\* No task, however long it sleeps through the recharges of others, gathers twice
\* the largest priority or more.
THEOREM CountersBounded == Spec => []CounterBounded
<1>1. Init => CounterBounded
  <2> SUFFICES ASSUME Init, NEW t \in Tasks
               PROVE  counter[t] < 2 * MaxPriority
      BY DEF CounterBounded
  <2>1. counter[t] = MaxPriority
      BY SchedAssumption, Zenon DEF Init, All
  <2>2. QED
      BY <2>1, SchedAssumption
<1>2. QED
    BY <1>1, CounterStep, TypeInit, TypeStep, PTL DEF Spec

-----------------------------------------------------------------------------
LEMMA AlarmStep ==
    TypeOK /\ NoAlarms /\ AlarmKeepsTime /\ [Next]_vars => NoAlarms' /\ AlarmKeepsTime'
<1> SUFFICES ASSUME TypeOK, NoAlarms, AlarmKeepsTime, [Next]_vars
             PROVE  NoAlarms' /\ AlarmKeepsTime'
    OBVIOUS
<1>1. CASE do_timer
  <2>1. it_real_value' = it_real_value /\ NoAlarms'
      BY <1>1 DEF do_timer, NoAlarms
  <2>2. ASSUME NEW t \in Tasks, it_real_value[t] # 0
        PROVE  it_real_value[t] = owed'[t] + 1 + itimer_ticks'
    <3>1. owed'[t] = owed[t] - 1
        BY <1>1, <2>2 DEF do_timer
    <3>2. itimer_ticks' = itimer_ticks + 1
        BY <1>1, <2>2 DEF do_timer, NoAlarms
    <3>3. QED
        BY <2>2, <3>1, <3>2 DEF TypeOK, AlarmKeepsTime
  <2>3. QED
      BY <2>1, <2>2 DEF AlarmKeepsTime
<1>2. ASSUME NEW j \in AlarmValues \cup {0}, NEW i \in AlarmValues \cup {0},
             AlarmValues # {}, setitimer(j, i)
      PROVE  NoAlarms' /\ AlarmKeepsTime'
    BY <1>2, SchedAssumption DEF setitimer, Armed, TypeOK, All, NoAlarms, AlarmKeepsTime
<1>3. CASE schedule_scan
  <2>1. \A t \in Tasks : it_real_value'[t] = Rearmed(t, itimer_ticks)
      BY <1>3 DEF schedule_scan
  <2>2. NoAlarms'
      BY <2>1 DEF NoAlarms, Rearmed
  <2>3. ASSUME NEW t \in Tasks, it_real_value'[t] # 0
        PROVE  it_real_value'[t] = owed'[t] + 1 + itimer_ticks'
    <3> DEFINE p == Periods(t, itimer_ticks) * it_real_incr[t]
    <3>1. owed'[t] = owed[t] + p /\ itimer_ticks' = 0
        BY <1>3, <2>1, <2>3 DEF schedule_scan
    <3>2. p \in Nat /\ it_real_value'[t] = it_real_value[t] - itimer_ticks + p
        BY <2>1, <2>3, RearmedType
    <3>3. it_real_value[t] # 0
        BY <2>1, <2>3 DEF Rearmed
    <3>4. it_real_value[t] = owed[t] + 1 + itimer_ticks
        BY <3>3 DEF AlarmKeepsTime
    <3>5. owed[t] \in Int /\ itimer_ticks \in Nat
        BY DEF TypeOK
    <3> HIDE DEF p
    <3>6. QED
        BY <3>1, <3>2, <3>4, <3>5
  <2>4. QED
      BY <2>2, <2>3 DEF AlarmKeepsTime
<1>4. CASE UNCHANGED <<itimer_ticks, it_real_value, owed>>
    BY <1>4 DEF NoAlarms, AlarmKeepsTime
<1>5. QED
    BY <1>1, <1>2, <1>3, <1>4 DEF Next, Interrupt, Task, Kernel, vars, clock, alarms, wake_up,
       send_sig, sleep_on, sys_nice, sys_idle, do_signal, ret_from_sys_call, schedule_pick, switch_to

\* An alarm counts exactly the ticks it was asked to wait, one more and no fewer,
\* across any number of late schedule()s and periods.
THEOREM AlarmsKeepTime == Spec => []AlarmKeepsTime
<1>1. Init => NoAlarms /\ AlarmKeepsTime
    BY DEF Init, NoAlarms, AlarmKeepsTime
<1>2. QED
    BY <1>1, AlarmStep, TypeInit, TypeStep, PTL DEF Spec
=============================================================================
