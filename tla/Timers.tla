------------------------------- MODULE Timers -------------------------------
(***************************************************************************)
(* The kernel timers of kernel/sched.c: the dynamic timer list             *)
(* (add_timer, del_timer), a list sorted by deadline in which every entry  *)
(* holds only the ticks that separate it from its predecessor; and the     *)
(* static table timer_table[] with its bit mask timer_active.  The timer   *)
(* interrupt do_timer only counts and marks TIMER_BH; the callbacks run    *)
(* later, in the bottom half timer_bh, with interrupts enabled.            *)
(*                                                                         *)
(* Steps interleave where interrupts are enabled: ticks, and the calls of  *)
(* drivers, may fall between any two callbacks.  add_timer and del_timer   *)
(* run under cli() and are one step each.                                  *)
(***************************************************************************)
EXTENDS Integers, Sequences, FiniteSets, Functions, SequencesExt

CONSTANTS Timers,    \* timer_list structures
          Requests,  \* values of timer->expires at add_timer
          NStatic,   \* entries of timer_table
          Delays     \* values of timer_table[n].expires - jiffies when armed

VARIABLES next_timer,   \* the list, as the sequence of its entries
          expires,      \* timer->expires: the delta while the timer is linked
          bh_active,    \* TIMER_BH is marked
          bh,           \* where the bottom half is: "idle", "list" or "table"
          scan,         \* the next entry of timer_table it looks at
          timer_active, \* the armed entries of timer_table
          texpires,     \* timer_table[n].expires - jiffies, not below 0
          wait,         \* history: the ticks a timer was told to wait and has
                        \* not waited yet; the code has no such field
          fired         \* history: the timer whose callback the last step ran,
                        \* as a set of at most one

vars == <<next_timer, expires, bh_active, bh, scan, timer_active, texpires,
          wait, fired>>

Statics == 1..NStatic
Linked == ToSet(next_timer)

\* The head of the list has expired and waits for the bottom half.
HeadDue == next_timer # <<>> /\ expires[Head(next_timer)] = 0

Init == /\ next_timer = <<>>
        /\ expires = [t \in Timers |-> 0]
        /\ bh_active = FALSE
        /\ bh = "idle"
        /\ scan = 1
        /\ timer_active = {}
        /\ texpires = [n \in Statics |-> 0]
        /\ wait = [x \in Timers \cup Statics |-> 0]
        /\ fired = {}

-----------------------------------------------------------------------------
(* The list.                                                               *)

\* The ticks until the i-th entry expires: the deltas up to it, added up.
UpTo(list, delta, i) == FoldSeq(LAMBDA t, s : delta[t] + s, 0, SubSeq(list, 1, i))

\* Seeded slip: an equal deadline goes in front.
PlaceBeforeEqual(v) ==
    CHOOSE i \in 1..(Len(next_timer) + 1) :
        /\ \A j \in 1..(i - 1) : UpTo(next_timer, expires, j) < v
        /\ i <= Len(next_timer) => UpTo(next_timer, expires, i) >= v

\* The loop of add_timer walks past the entries that expire no later than the
\* new one, and stops at the first whose delta exceeds what is left of it.
Place(v) ==
    CHOOSE i \in 1..(Len(next_timer) + 1) :
        /\ \A j \in 1..(i - 1) : UpTo(next_timer, expires, j) <= v
        /\ i <= Len(next_timer) => UpTo(next_timer, expires, i) > v

\* add_timer(timer) with timer->expires = v.  Its callers pass a timer that is
\* not in the list (they call del_timer first).
AddTimer(t, v) ==
    LET i == Place(v)
        left == v - UpTo(next_timer, expires, i - 1) IN
    /\ t \notin Linked
    /\ expires' = [u \in Timers |->
                      IF u = t THEN left
                      ELSE IF i <= Len(next_timer) /\ u = next_timer[i]
                             THEN expires[u] - left
                             ELSE expires[u]]
    /\ next_timer' = InsertAt(next_timer, i, t)
    /\ wait' = [wait EXCEPT ![t] = v]
    /\ fired' = {}
    /\ UNCHANGED <<bh_active, bh, scan, timer_active, texpires>>

\* Seeded slip: the successor does not inherit.
UnlinkedNoInherit(i) ==
    [expires EXCEPT ![next_timer[i]] = UpTo(next_timer, expires, i)]

\* The deltas after the i-th entry is unlinked: its successor inherits its delta,
\* and the timer gets back the ticks it still had to wait.
Unlinked(i) ==
    [u \in Timers |->
        IF u = next_timer[i] THEN UpTo(next_timer, expires, i)
        ELSE IF i < Len(next_timer) /\ u = next_timer[i + 1]
               THEN expires[u] + expires[next_timer[i]]
               ELSE expires[u]]

\* del_timer(timer).  If it is not in the list nothing happens, and it returns 0.
DelTimer(t) ==
    \E i \in 1..Len(next_timer) :
        /\ next_timer[i] = t
        /\ expires' = Unlinked(i)
        /\ next_timer' = RemoveAt(next_timer, i)
        /\ fired' = {}
        /\ UNCHANGED <<bh_active, bh, scan, timer_active, texpires, wait>>

-----------------------------------------------------------------------------
(* The static table.                                                       *)

\* timer_table[n].expires = jiffies + d; timer_active |= 1 << n.
ArmStatic(n, d) ==
    /\ timer_active' = timer_active \cup {n}
    /\ texpires' = [texpires EXCEPT ![n] = d]
    /\ wait' = [wait EXCEPT ![n] = d]
    /\ fired' = {}
    /\ UNCHANGED <<next_timer, expires, bh_active, bh, scan>>

\* timer_active &= ~(1 << n).
DisarmStatic(n) ==
    /\ n \in timer_active
    /\ timer_active' = timer_active \ {n}
    /\ fired' = {}
    /\ UNCHANGED <<next_timer, expires, bh_active, bh, scan, texpires, wait>>

-----------------------------------------------------------------------------
(* The timer interrupt and the bottom half.                                *)

Monus(n) == IF n > 0 THEN n - 1 ELSE 0

\* The deltas after a tick: only the head of the list is touched, and a tick that
\* finds it already at 0 is lost.
Aged == IF next_timer = <<>> \/ HeadDue
          THEN expires
          ELSE [expires EXCEPT ![Head(next_timer)] = @ - 1]

\* Seeded slip: only the table is looked at.
MarksTableOnly == \E n \in timer_active : texpires[n] <= 1

\* mark_bh(TIMER_BH): an armed table entry has expired, or the head of the list has.
Marks == \/ \E n \in timer_active : texpires[n] <= 1
         \/ next_timer # <<>> /\ expires[Head(next_timer)] <= 1

\* The part of do_timer about timers: jiffies++, the table, the head of the list.
do_timer ==
    /\ texpires' = [n \in Statics |-> Monus(texpires[n])]
    /\ expires' = Aged
    /\ bh_active' = (bh_active \/ Marks)
    /\ wait' = [x \in DOMAIN wait |-> Monus(wait[x])]
    /\ fired' = {}
    /\ UNCHANGED <<next_timer, bh, scan, timer_active>>

\* do_bottom_half clears the mark, then calls timer_bh.  intr_count keeps it
\* from being entered twice.
bh_enter == /\ bh = "idle"
            /\ bh_active
            /\ bh_active' = FALSE
            /\ bh' = "list"
            /\ fired' = {}
            /\ UNCHANGED <<next_timer, expires, scan, timer_active, texpires, wait>>

\* One round of the while loop of timer_bh: unlink the head, run its callback.
bh_list ==
    /\ bh = "list"
    /\ HeadDue
    /\ next_timer' = Tail(next_timer)
    /\ fired' = {Head(next_timer)}
    /\ UNCHANGED <<expires, bh_active, bh, scan, timer_active, texpires, wait>>

\* Seeded slip: the bottom half returns after the list.
bh_list_endReturns ==
    /\ bh = "list"
    /\ ~HeadDue
    /\ bh' = "idle"
    /\ fired' = {}
    /\ UNCHANGED <<next_timer, expires, bh_active, scan, timer_active, texpires, wait>>

\* The loop ends; timer_bh goes on to the table.
bh_list_end ==
    /\ bh = "list"
    /\ ~HeadDue
    /\ bh' = "table"
    /\ scan' = 1
    /\ fired' = {}
    /\ UNCHANGED <<next_timer, expires, bh_active, timer_active, texpires, wait>>

\* The entries of the table the for loop still has to run.
TableDue == {n \in timer_active : n >= scan /\ texpires[n] = 0}

bh_table ==
    /\ bh = "table"
    /\ \E n \in TableDue :
          /\ \A m \in TableDue : n <= m
          /\ timer_active' = timer_active \ {n}
          /\ scan' = n + 1
          /\ fired' = {n}
    /\ UNCHANGED <<next_timer, expires, bh_active, bh, texpires, wait>>

bh_return == /\ bh = "table"
             /\ TableDue = {}
             /\ bh' = "idle"
             /\ scan' = 1
             /\ fired' = {}
             /\ UNCHANGED <<next_timer, expires, bh_active, timer_active, texpires, wait>>

-----------------------------------------------------------------------------
Drivers == \/ \E t \in Timers, v \in Requests : AddTimer(t, v)
           \/ \E t \in Timers : DelTimer(t)
           \/ \E n \in Statics, d \in Delays : ArmStatic(n, d)
           \/ \E n \in Statics : DisarmStatic(n)

timer_bh == bh_list \/ bh_list_end \/ bh_table \/ bh_return

Next == Drivers \/ do_timer \/ bh_enter \/ timer_bh

Spec == Init /\ [][Next]_vars

\* The interrupt keeps coming, and pending bottom halves are run on the way out
\* of every interrupt and system call.  The while loop of timer_bh ends (strong
\* fairness): only a tick falling between every two of its callbacks, with a new
\* one-tick timer added each time, could keep it running for ever.
Fairness == /\ WF_vars(do_timer)
            /\ WF_vars(bh_enter)
            /\ WF_vars(timer_bh)
            /\ SF_vars(bh_list_end)

FairSpec == Spec /\ Fairness

-----------------------------------------------------------------------------
\* The ticks timer t still has to wait according to the list.
Remaining(t) == UpTo(next_timer, expires, CHOOSE i \in DOMAIN next_timer : next_timer[i] = t)

\* No callback runs before the ticks its timer asked for have passed, however
\* many timers were added in front of it or deleted meanwhile (the deltas of
\* add_timer and del_timer), and whatever the table timers do.
NeverEarly == /\ \A t \in Linked : Remaining(t) >= wait[t]
              /\ \A x \in fired : wait[x] = 0

DueAtOnce == []<><<\E t \in Timers : AddTimer(t, 0)>>_vars

\* Every added timer is eventually run or deleted, unless drivers keep adding timers that
\* are due at once for ever: while the head is overdue, do_timer does not age the list.
EventuallyFires(t) == DueAtOnce \/ (t \in Linked ~> t \notin Linked)

\* Every armed table entry is eventually run or disarmed, unless its driver keeps
\* pushing its deadline back for ever (the console does at every key), or timers that
\* are due at once keep timer_bh in its first loop.
StaticFires ==
    \A n \in Statics :
        \/ DueAtOnce
        \/ []<><<\E d \in Delays : ArmStatic(n, d)>>_vars
        \/ n \in timer_active ~> n \notin timer_active

\* The delta list implements the set of deadlines: same deadlines, same order.
Abs == INSTANCE TimersAbs WITH
    remaining <- [t \in Timers |-> IF t \in Linked THEN Remaining(t) ELSE -1],
    ahead <- [t \in Timers |->
                 {u \in Linked : \E i, j \in DOMAIN next_timer :
                     i < j /\ next_timer[i] = u /\ next_timer[j] = t}]

ImplementsDeadlines == Abs!AbsSpec
=============================================================================
