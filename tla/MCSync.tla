------------------------------- MODULE MCSync -------------------------------
(***************************************************************************)
(* Wait queues, semaphores, select and timers for TLC: what waiting is     *)
(* made of.  They share no state here: a behaviour is one of the part that *)
(* view names.                                                             *)
(***************************************************************************)
EXTENDS Semaphore, TLC

CONSTANTS Queues, Entries, Tasks, Owner, w1, w2, w3, w4, t1, t2, t3, Selectors

Owner4 == w1 :> t1 @@ w2 :> t1 @@ w3 :> t2 @@ w4 :> t3

VARIABLES view, head, next, tstate, joined, pipe, queue, call,
          next_timer, expires, bh_active, bh, scan, timer_active, texpires, twait, fired

wvars == <<head, next, tstate, joined>>
svars == <<pipe, queue, call>>
tvars == <<next_timer, expires, bh_active, bh, scan, timer_active, texpires, twait, fired>>

WQ == INSTANCE WaitQueue WITH NULL <- None, state <- tstate
SL == INSTANCE Select WITH Procs <- Selectors, Files <- {1, 2}, MAX_ENTRIES <- 6
TM == INSTANCE Timers WITH Timers <- {t1, t2, t3}, Requests <- {0, 2}, NStatic <- 1, Delays <- {1}, wait <- twait

SyncInit == /\ view \in {"queues", "semaphore", "select", "timers"}
            /\ Init /\ WQ!Init /\ SL!Init /\ TM!Init

SyncNext == \/ view = "semaphore" /\ Next /\ UNCHANGED <<view, wvars, svars, tvars>>
            \/ view = "queues" /\ WQ!Next /\ UNCHANGED <<view, vars, svars, tvars>>
            \/ view = "select" /\ SL!Next /\ UNCHANGED <<view, vars, wvars, tvars>>
            \/ view = "timers" /\ TM!Next /\ UNCHANGED <<view, vars, wvars, svars>>

\* The fairness of Semaphore and of Timers.  Their fair actions but for the tick are not
\* enabled in their initial states, where they stay while another view moves.
SyncSpec == /\ SyncInit /\ [][SyncNext]_<<view, vars, wvars, svars, tvars>>
            /\ Fairness
            /\ WF_tvars(view = "timers" /\ TM!do_timer)
            /\ WF_tvars(TM!bh_enter)
            /\ WF_tvars(TM!timer_bh)
            /\ SF_tvars(TM!bh_list_end)

\* WakeUpWakes of WaitQueue: wake_up reaches every sleeper of its queue, and nobody
\* else.
WakeUpWakes == WQ!WakeUpWakes


\* Rings of WaitQueue and NoEntryLeft of Select: a wait queue is a ring of exactly the
\* entries that were added and not removed, and no entry stays on one when select has
\* freed its table.
QueuesExact == WQ!Rings /\ SL!NoEntryLeft

\* NeverEarly of Timers: no callback of a timer runs before its ticks have passed.
NeverEarly == TM!NeverEarly

\* ImplementsDeadlines of Timers: the delta list keeps every deadline and the order.
ImplementsDeadlines == TM!ImplementsDeadlines

\* EventuallyFires and StaticFires of Timers: an armed timer is run or taken back.  One
\* timer stands for all: they differ in nothing.
TimersFire == TM!EventuallyFires(t1) /\ TM!StaticFires
=============================================================================
