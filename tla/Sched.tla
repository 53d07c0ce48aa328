------------------------------- MODULE Sched -------------------------------
(***************************************************************************)
(* The scheduler of kernel/sched.c: schedule(), the accounting part of the *)
(* timer interrupt do_timer, wake_up, and the interval timers of           *)
(* kernel/itimer.c that schedule() serves.  The kernel is not preemptive:  *)
(* a task runs until it sleeps or, on the way back to user mode, finds     *)
(* need_resched set.  Interrupts (do_timer, wake_up, send_sig) may come    *)
(* between any two steps, also inside schedule().                          *)
(***************************************************************************)
EXTENDS Integers

CONSTANTS Tasks,       \* the tasks after task[0] in the task list
          Pos,         \* their position in that list
          Idle,        \* task[0]
          MaxPriority, \* the largest priority sys_nice gives (35)
          Priorities,  \* those it is asked for
          Signalled,   \* the tasks others send signals to
          AlarmValues, \* ticks asked of _setitimer
          Timeouts,    \* ticks a sleeper is ready to wait
          MaxTicks,    \* bound, where alarms are used: ticks between two calls of
                       \* schedule(), one of them at most before its switch
          ULongMax     \* ~0

ASSUME SchedAssumption ==
    /\ Idle \notin Tasks
    /\ Pos \in [Tasks -> Nat]
    /\ \A t, u \in Tasks : Pos[t] = Pos[u] => t = u
    /\ MaxPriority \in Nat \ {0} /\ Priorities \subseteq 1..MaxPriority
    /\ Signalled \subseteq Tasks
    /\ AlarmValues \subseteq Nat \ {0}
    /\ Timeouts \subseteq Nat \ {0}
    /\ MaxTicks \in Nat /\ ULongMax \in Nat

VARIABLES current, state, counter, priority, need_resched,
          signal,        \* an unblocked signal is pending
          timeout,       \* p->timeout - jiffies, not below 0; -1 if p->timeout is 0
          itimer_ticks, itimer_next, it_real_value, it_real_incr,
          phase,         \* how far schedule() is: "no", "call", "pick", "switch"
          next,          \* its choice
          owed           \* history: ticks an armed alarm was promised to wait
                         \* and has not waited yet

vars == <<current, state, counter, priority, need_resched, signal, timeout,
          itimer_ticks, itimer_next, it_real_value, it_real_incr, phase, next, owed>>
clock == <<itimer_ticks, itimer_next>>
alarms == <<it_real_value, it_real_incr, owed>>

All == Tasks \cup {Idle}
Sleeping == {"INTERRUPTIBLE", "UNINTERRUPTIBLE"}
Runnable == {t \in Tasks : state[t] = "RUNNING"}

Init == /\ current = Idle
        /\ state = [t \in All |-> "RUNNING"]
        /\ priority = [t \in All |-> MaxPriority]
        /\ counter = [t \in All |-> IF t = Idle THEN 0 ELSE MaxPriority]
        /\ need_resched = FALSE
        /\ signal = [t \in Tasks |-> FALSE]
        /\ timeout = [t \in Tasks |-> -1]
        /\ itimer_ticks = 0 /\ itimer_next = ULongMax
        /\ it_real_value = [t \in Tasks |-> 0]
        /\ it_real_incr = [t \in Tasks |-> 0]
        /\ owed = [t \in Tasks |-> 0]
        /\ phase = "no"
        /\ next = Idle

-----------------------------------------------------------------------------
(* Interrupts.                                                             *)

Spent == current = Idle \/ counter[current] <= 1

\* The running task pays for the tick.
Paid == [counter EXCEPT ![current] = IF Spent THEN 0 ELSE @ - 1]

\* do_timer, as far as it concerns scheduling and alarms.
do_timer ==
    /\ AlarmValues # {} => itimer_ticks < (IF phase \in {"pick", "switch"} THEN 1 ELSE MaxTicks)
    /\ timeout' = [t \in Tasks |-> IF timeout[t] > 0 THEN timeout[t] - 1 ELSE timeout[t]]
    /\ counter' = Paid
    /\ itimer_ticks' = IF AlarmValues = {} THEN itimer_ticks ELSE itimer_ticks + 1
    /\ need_resched' = (need_resched \/ Spent \/ itimer_ticks' > itimer_next)
    /\ owed' = [t \in Tasks |-> IF it_real_value[t] = 0 THEN 0 ELSE owed[t] - 1]
    /\ UNCHANGED <<current, state, priority, signal, itimer_next,
                   it_real_value, it_real_incr, phase, next>>

\* wake_up reaches a sleeper t from an interrupt or from the running task.
wake_up(t) ==
    /\ state[t] \in Sleeping
    /\ state' = [state EXCEPT ![t] = "RUNNING"]
    /\ need_resched' = (need_resched \/ counter[t] > counter[current])
    /\ UNCHANGED <<current, counter, priority, signal, timeout, clock, alarms, phase, next>>

\* send_sig posts a signal; schedule() is what makes its target runnable.
send_sig(t) ==
    /\ ~signal[t]
    /\ signal' = [signal EXCEPT ![t] = TRUE]
    /\ UNCHANGED <<current, state, counter, priority, need_resched, timeout, clock, alarms,
                   phase, next>>

-----------------------------------------------------------------------------
(* What the running task does.                                             *)

Running(t) == current = t /\ phase = "no"

\* __sleep_on, sys_pause, select: set the state, then call schedule().
sleep_on(s, d) ==
    /\ Running(current) /\ current # Idle
    /\ state' = [state EXCEPT ![current] = s]
    /\ timeout' = [timeout EXCEPT ![current] = d]
    /\ phase' = "call"
    /\ UNCHANGED <<current, counter, priority, need_resched, signal, clock, alarms, next>>

\* Seeded slip: the ticks schedule() has not seen yet are forgotten.
ArmedFresh(j) == IF j = 0 THEN 0 ELSE j + 1

\* it_real_value counts from the last schedule(), not from now.
Armed(j) == IF j = 0 THEN 0 ELSE j + 1 + itimer_ticks

\* _setitimer(ITIMER_REAL) with value j and interval i, in jiffies.
setitimer(j, i) ==
    /\ Running(current) /\ current # Idle
    /\ it_real_value' = [it_real_value EXCEPT ![current] = Armed(j)]
    /\ itimer_next' = IF j # 0 /\ Armed(j) < itimer_next THEN Armed(j) ELSE itimer_next
    /\ it_real_incr' = [it_real_incr EXCEPT ![current] = i]
    /\ owed' = [owed EXCEPT ![current] = j]
    /\ UNCHANGED <<current, state, counter, priority, need_resched, signal, timeout,
                   itimer_ticks, phase, next>>

\* sys_nice.
sys_nice(p) ==
    /\ Running(current) /\ current # Idle
    /\ priority' = [priority EXCEPT ![current] = p]
    /\ UNCHANGED <<current, state, counter, need_resched, signal, timeout, clock, alarms, phase, next>>

\* sys_idle, which task[0] calls for ever.
sys_idle ==
    /\ Running(Idle)
    /\ need_resched' = TRUE
    /\ UNCHANGED <<current, state, counter, priority, signal, timeout, clock, alarms, phase, next>>

\* ret_from_sys_call: reschedule before going back to user mode, or take signals.
MustReschedule == \/ need_resched
                  \/ current # Idle /\ state[current] # "RUNNING"
                  \/ current # Idle /\ counter[current] = 0

ret_from_sys_call ==
    /\ phase = "no"
    /\ MustReschedule
    /\ phase' = "call"
    /\ UNCHANGED <<current, state, counter, priority, need_resched, signal, timeout, clock, alarms, next>>

do_signal ==
    /\ phase = "no" /\ current # Idle /\ ~MustReschedule
    /\ signal[current]
    /\ signal' = [signal EXCEPT ![current] = FALSE]
    /\ UNCHANGED <<current, state, counter, priority, need_resched, timeout, clock, alarms, phase, next>>

-----------------------------------------------------------------------------
(* schedule()                                                              *)

\* Seeded slip: off by one.
DueLate(t, ticks) == ticks # 0 /\ it_real_value[t] # 0 /\ it_real_value[t] < ticks

Due(t, ticks) == ticks # 0 /\ it_real_value[t] # 0 /\ it_real_value[t] <= ticks

\* The rounds of the do-while loop, which stops at the first value beyond ticks.
Periods(t, ticks) ==
    IF ~Due(t, ticks) \/ it_real_incr[t] = 0 THEN 0
    ELSE (ticks - it_real_value[t]) \div it_real_incr[t] + 1

\* What is left of the alarm of t after ticks more ticks.
Rearmed(t, ticks) ==
    IF it_real_value[t] = 0 \/ ticks = 0 THEN it_real_value[t]
    ELSE IF Due(t, ticks) /\ it_real_incr[t] = 0 THEN 0
    ELSE it_real_value[t] + Periods(t, ticks) * it_real_incr[t] - ticks

\* Seeded slip: timeouts are not looked at.
NoneExpired == {}

Expired == {t \in Tasks : timeout[t] = 0}

\* The first loop: alarms, signals and timeouts of every task.
schedule_scan ==
    /\ phase = "call"
    /\ LET ticks == itimer_ticks
           posted == {t \in Tasks : Due(t, ticks)}
           value == [t \in Tasks |-> Rearmed(t, ticks)]
           rearmed == {value[t] : t \in {u \in Tasks : ticks # 0 /\ value[u] # 0}}
           asleep == {t \in Tasks : state[t] = "INTERRUPTIBLE"}
           roused == {t \in asleep : signal[t] \/ t \in posted} IN
       /\ signal' = [t \in Tasks |-> signal[t] \/ t \in posted]
       /\ it_real_value' = value
       /\ owed' = [t \in Tasks |-> IF value[t] = 0 THEN 0
                                 ELSE owed[t] + Periods(t, ticks) * it_real_incr[t]]
       /\ \E v \in rearmed \cup {ULongMax} :
             /\ \A w \in rearmed \cup {ULongMax} : v <= w
             /\ itimer_next' = v
       /\ state' = [t \in All |-> IF t \in roused \/ t \in asleep \cap Expired
                                     THEN "RUNNING" ELSE state[t]]
       /\ timeout' = [t \in Tasks |-> IF t \in (asleep \cap Expired) \ roused
                                         THEN -1 ELSE timeout[t]]
    /\ itimer_ticks' = 0
    /\ need_resched' = FALSE
    /\ phase' = "pick"
    /\ UNCHANGED <<current, counter, priority, it_real_incr, next>>

\* Seeded slips: the state, or the counter, is not looked at.
BestOfAll(t) == \A u \in Tasks : \/ counter[t] > counter[u]
                                 \/ counter[t] = counter[u] /\ Pos[t] <= Pos[u]
FirstRunnable(t) == t \in Runnable /\ \A u \in Runnable : Pos[t] <= Pos[u]

\* The scheduler proper: the runnable task with the largest counter, the first
\* of them in the task list; if that counter is 0, everyone's is recharged.
Best(t) == /\ t \in Runnable
           /\ \A u \in Runnable : \/ counter[t] > counter[u]
                                  \/ counter[t] = counter[u] /\ Pos[t] <= Pos[u]

\* Seeded slip: what is left of a counter is not halved.
RechargedFully == [t \in All |-> IF t = Idle THEN counter[t] ELSE counter[t] + priority[t]]

Recharged == [t \in All |-> IF t = Idle THEN counter[t] ELSE (counter[t] \div 2) + priority[t]]

schedule_pick ==
    /\ phase = "pick"
    /\ \/ /\ Runnable = {}
          /\ next' = Idle
          /\ UNCHANGED counter
       \/ \E t \in Tasks :
             /\ Best(t)
             /\ next' = t
             /\ counter' = IF counter[t] = 0 THEN Recharged ELSE counter
    /\ phase' = "switch"
    /\ UNCHANGED <<current, state, priority, need_resched, signal, timeout, clock, alarms>>

switch_to ==
    /\ phase = "switch"
    /\ current' = next
    /\ phase' = "no"
    /\ UNCHANGED <<state, counter, priority, need_resched, signal, timeout, clock, alarms, next>>

-----------------------------------------------------------------------------
Interrupt == \/ do_timer
             \/ \E t \in Tasks : wake_up(t)
             \/ \E t \in Signalled : send_sig(t)

Task == \/ \E s \in Sleeping, d \in Timeouts \cup {-1} : sleep_on(s, d)
        \/ \E j, i \in AlarmValues \cup {0} : AlarmValues # {} /\ setitimer(j, i)
        \/ \E p \in Priorities : sys_nice(p)
        \/ sys_idle \/ do_signal

Kernel == ret_from_sys_call \/ schedule_scan \/ schedule_pick \/ switch_to

Next == Interrupt \/ Task \/ Kernel

Spec == Init /\ [][Next]_vars

\* The timer interrupt keeps coming, the kernel path that was entered goes on,
\* and task[0] keeps calling idle().
Fairness == WF_vars(do_timer) /\ WF_vars(Kernel) /\ WF_vars(sys_idle)

FairSpec == Spec /\ Fairness

-----------------------------------------------------------------------------
TypeOK == /\ current \in All /\ next \in All
          /\ state \in [All -> Sleeping \cup {"RUNNING"}]
          /\ counter \in [All -> Nat]
          /\ priority \in [All -> 1..MaxPriority]
          /\ need_resched \in BOOLEAN
          /\ signal \in [Tasks -> BOOLEAN]
          /\ timeout \in [Tasks -> Nat \cup {-1}]
          /\ itimer_ticks \in Nat /\ itimer_next \in Nat
          /\ it_real_value \in [Tasks -> Nat] /\ it_real_incr \in [Tasks -> Nat]
          /\ owed \in [Tasks -> Int]
          /\ phase \in {"no", "call", "pick", "switch"}

\* schedule() never hands the processor to a task that sleeps, although wake_ups,
\* signals and ticks come between its loops and the switch; task[0] never sleeps
\* ("It can not be killed, and it cannot sleep").
OnlyRunnableRuns == /\ phase = "switch" => state[next] = "RUNNING"
                    /\ phase = "no" => state[current] = "RUNNING"
                    /\ state[Idle] = "RUNNING"

\* However often it is recharged while its task sleeps, a counter stays below
\* twice the largest priority, so that no sleeper gathers an unbounded share.
CounterBounded == \A t \in Tasks : counter[t] < 2 * MaxPriority

\* The alarm of a task runs on real ticks: it is posted after the ticks that were
\* asked for and not before, whenever in the interval between two schedule()s it
\* was set, and a periodic one that is served late does not drift.
AlarmKeepsTime ==
    \A t \in Tasks : it_real_value[t] # 0 =>
        it_real_value[t] = owed[t] + 1 + itimer_ticks

\* No runnable task waits for ever: the others use up their counters, after which
\* everyone is recharged.  Nor does an interruptible sleeper with a signal or a timeout,
\* although nothing but a later schedule() notices these.
NoStarvation ==
    \A t \in Tasks :
        \/ state[t] = "RUNNING"
        \/ state[t] = "INTERRUPTIBLE" /\ (signal[t] \/ timeout[t] >= 0)
        ~> current = t

\* A task that sleeps past its alarm gets the signal, even when itimer_next missed
\* the alarm, unless something else lets it run before.
AlarmPosted == \A t \in Tasks :
    (state[t] \in Sleeping /\ it_real_value[t] # 0 /\ owed[t] < 0) ~> (signal[t] \/ current = t)
=============================================================================
