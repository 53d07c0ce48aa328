----------------------------- MODULE WaitQueue -----------------------------
(***************************************************************************)
(* The wait queues of include/linux/sched.h: circular singly linked lists  *)
(* of entries that live on the stacks of the sleepers, with one pointer to *)
(* some entry as the queue.  "You have to be *very* sure to keep them      *)
(* correct."  Adding and removing run under cli(), and interrupts only     *)
(* call wake_up, so each operation is one step.  A task may have entries   *)
(* in several queues at once, as select() does.                            *)
(***************************************************************************)
EXTENDS FiniteSets, Naturals

CONSTANTS Queues, Entries, Tasks, NULL,
          Owner       \* the task of an entry

VARIABLES head,       \* *p of every queue
          next,       \* wait->next
          state,      \* task states
          joined      \* history: the queue an entry was last added to, or NULL

vars == <<head, next, state, joined>>

Asleep == {"INTERRUPTIBLE", "UNINTERRUPTIBLE"}

Init == /\ head = [q \in Queues |-> NULL]
        /\ next = [w \in Entries |-> NULL]
        /\ state = [t \in Tasks |-> "RUNNING"]
        /\ joined = [w \in Entries |-> NULL]

\* An entry becomes the second of the ring, or a ring of its own.
Added(q, w) == IF head[q] = NULL THEN [next EXCEPT ![w] = w]
               ELSE [next EXCEPT ![w] = next[head[q]], ![head[q]] = w]

add_wait_queue(q, w) ==
    /\ joined[w] = NULL
    /\ next' = Added(q, w)
    /\ head' = [head EXCEPT ![q] = IF @ = NULL THEN w ELSE @]
    /\ joined' = [joined EXCEPT ![w] = q]
    /\ UNCHANGED state

\* Seeded slip: the queue pointer stays at the entry that leaves.
HeadWithoutKept(q, w) == IF head[q] = w /\ next[w] = w THEN NULL ELSE head[q]

HeadWithout(q, w) == IF head[q] # w THEN head[q]
                     ELSE IF next[w] = w THEN NULL ELSE next[w]

\* The while loop goes once around the ring to the predecessor of w.
remove_wait_queue(q, w) ==
    /\ joined[w] = q
    /\ head' = [head EXCEPT ![q] = HeadWithout(q, w)]
    /\ \E tmp \in Entries :
          /\ next[tmp] = w
          /\ next' = [next EXCEPT ![tmp] = next[w], ![w] = NULL]
    /\ joined' = [joined EXCEPT ![w] = NULL]
    /\ UNCHANGED state

\* The entries the do-while loop of wake_up visits: from *q until it is back there,
\* or an entry without successor, which it reports as "wait_queue is bad".
Visited[n \in 0..Cardinality(Entries), q \in Queues] ==
    IF head[q] = NULL THEN {}
    ELSE IF n = 0 THEN {head[q]}
    ELSE LET before == Visited[n - 1, q] IN
         before \cup ({next[w] : w \in before} \ {NULL})

\* Seeded slip: the loop stops before it has gone around.
WalkShort(q) == Visited[1, q]

Walk(q) == Visited[Cardinality(Entries), q]

\* wake_up, with both sleeping states, and wake_up_interruptible, with one.
WakeAll(q, which) == [t \in Tasks |-> IF state[t] \in which /\ \E w \in Walk(q) : Owner[w] = t
                                        THEN "RUNNING" ELSE state[t]]

wake_up(q) == /\ state' = WakeAll(q, Asleep)
              /\ UNCHANGED <<head, next, joined>>

wake_up_interruptible(q) == /\ state' = WakeAll(q, {"INTERRUPTIBLE"})
                            /\ UNCHANGED <<head, next, joined>>

\* A task sets its state and calls schedule() (__sleep_on, select, wait_on_...).
sleep(t, s) == /\ state[t] = "RUNNING"
               /\ state' = [state EXCEPT ![t] = s]
               /\ UNCHANGED <<head, next, joined>>

\* Only a running task adds and removes its own entries.
Next == \/ \E q \in Queues, w \in Entries :
              /\ state[Owner[w]] = "RUNNING"
              /\ add_wait_queue(q, w) \/ remove_wait_queue(q, w)
        \/ \E q \in Queues : wake_up(q) \/ wake_up_interruptible(q)
        \/ \E t \in Tasks, s \in Asleep : sleep(t, s)

Spec == Init /\ [][Next]_vars

-----------------------------------------------------------------------------
\* Every queue is a ring of exactly the entries that were added to it and not removed:
\* the walk of wake_up reaches all of them and no other, each has one successor in
\* the ring, and an entry outside all queues points nowhere ("removed wait_queue
\* not on list", "wait_queue is bad" never happen).
Rings == /\ head \in [Queues -> Entries \cup {NULL}] /\ next \in [Entries -> Entries \cup {NULL}]
         /\ \A q \in Queues : Walk(q) = {w \in Entries : joined[w] = q}
         /\ \A w \in Entries : IF joined[w] = NULL THEN next[w] = NULL
                               ELSE next[w] # NULL /\ joined[next[w]] = joined[w]
         /\ \A w, x \in Entries : next[w] = next[x] /\ next[w] # NULL => w = x

\* wake_up leaves no sleeper of the queue asleep, and touches nobody else.
WakeUpWakes ==
    [][\A q \in Queues : wake_up(q) =>
          \A t \in Tasks : LET waits == \E w \in Entries : joined[w] = q /\ Owner[w] = t IN
             IF waits THEN state'[t] = "RUNNING" ELSE state'[t] = state[t]]_vars
=============================================================================
