--------------------------------- MODULE Msg ---------------------------------
(***************************************************************************)
(* System V message queues, ipc/msg.c: one slot of msgque and the queues   *)
(* that live in it one after the other, told apart by their sequence       *)
(* number.  A removed queue lives on until its sleepers have left.  A      *)
(* message is the block kmalloc returned for it.  kmalloc and the copies   *)
(* to and from the user sleep; a step is the code between two sleep points.*)
(***************************************************************************)
EXTENDS Integers, Sequences, FiniteSets, FiniteSetsExt

CONSTANTS Procs, Blocks, NULL, NOID,
          Types, Sizes,        \* of messages
          Wanted,              \* the records [typ, except, msgsz, noerror] of receivers
          MSGMNB,
          MaxSeq               \* bound on the queues ever created

VARIABLES slot,                \* msgque[id]: the queue there, NULL (IPC_UNUSED) or NOID (IPC_NOID)
          seq,                 \* msg_seq
          que,                 \* the queues by sequence number
          block,               \* the message in a block; allocated with msg_ts bytes of text
          msgbytes, msghdrs,
          asleep,
          proc                 \* the call a process is in

vars == <<slot, seq, que, block, msgbytes, msghdrs, asleep, proc>>

Queues == 0..MaxSeq
NoQueue == [state |-> "none", first |-> NULL, last |-> NULL, qnum |-> 0, cbytes |-> 0,
            rwait |-> {}, wwait |-> {}]
NoBlock == [used |-> FALSE, type |-> 0, ts |-> 0, next |-> NULL]
\* nowait: the call may not sleep (any more), for IPC_NOWAIT or a pending signal.
User == [pc |-> "user", q |-> 0, type |-> 0, size |-> 0, want |-> NULL, block |-> NULL, nowait |-> FALSE]

\* msg_init
Init == /\ slot = NULL /\ seq = 0
        /\ que = [q \in Queues |-> NoQueue]
        /\ block = [b \in Blocks |-> NoBlock]
        /\ msgbytes = 0 /\ msghdrs = 0
        /\ asleep = {}
        /\ proc = [p \in Procs |-> User]

Goes(p, r) == proc' = [proc EXCEPT ![p] = r]

\* newque, up to its kmalloc
newque(p) ==
    /\ proc[p].pc = "user" /\ slot = NULL /\ que[seq].state = "none"
    /\ slot' = NOID
    /\ Goes(p, [User EXCEPT !.pc = "newque"])
    /\ UNCHANGED <<seq, que, block, msgbytes, msghdrs, asleep>>

\* ... which fails or succeeds
newque_done(p) ==
    /\ proc[p].pc = "newque"
    /\ \/ slot' = NULL /\ UNCHANGED que
       \/ slot' = seq /\ que' = [que EXCEPT ![seq].state = "live"]
    /\ Goes(p, User)
    /\ UNCHANGED <<seq, block, msgbytes, msghdrs, asleep>>

-----------------------------------------------------------------------------
(* msgsnd                                                                  *)

Full(q, size) == size + que[q].cbytes > MSGMNB

\* From slept: to kmalloc. A queue that has been removed has another sequence number.
SendTry(p, r) ==
    LET q == r.q IN
    \/ /\ que[q].state = "live" /\ Full(q, r.size) /\ ~r.nowait
       /\ Goes(p, [r EXCEPT !.pc = "wwait"])
       /\ que' = [que EXCEPT ![q].wwait = @ \cup {p}]
       /\ asleep' = asleep \cup {p}
    \/ /\ que[q].state # "live" \/ (Full(q, r.size) /\ r.nowait)
       /\ Goes(p, User)
       /\ que' = [que EXCEPT ![q].wwait = @ \ {p}]
       /\ UNCHANGED asleep
    \/ /\ que[q].state = "live" /\ ~Full(q, r.size)
       /\ Goes(p, [r EXCEPT !.pc = "salloc"])
       /\ que' = [que EXCEPT ![q].wwait = @ \ {p}]
       /\ UNCHANGED asleep

msgsnd(p, t, n, nw) ==
    /\ proc[p].pc = "user" /\ slot \in Queues
    /\ SendTry(p, [User EXCEPT !.q = slot, !.type = t, !.size = n, !.nowait = nw])
    /\ UNCHANGED <<slot, seq, block, msgbytes, msghdrs>>

msgsnd_woken(p) ==
    /\ proc[p].pc = "wwait" /\ p \notin asleep
    /\ SendTry(p, proc[p])
    /\ UNCHANGED <<slot, seq, block, msgbytes, msghdrs>>

\* The queue with b linked in at its end.
Linked(m, b) == [m EXCEPT !.first = IF @ = NULL THEN b ELSE @, !.last = b]

\* Seeded slip: receivers are not told.
WokenNone(s) == asleep

\* wake_up
Woken(s) == asleep \ s

\* One free block is as good as another.
Kmalloc == CHOOSE b \in Blocks : ~block[b].used

\* kmalloc and memcpy_fromfs are done: -ENOMEM, -EIDRM if the queue has been removed, or
\* else the message is queued. (A removed queue that has been freed still shows its
\* changed sequence number here.)
msgsnd_queue(p) ==
    LET r == proc[p]  q == r.q  m == que[q] IN
    /\ r.pc = "salloc"
    /\ \/ /\ slot = q
          /\ {x \in Blocks : ~block[x].used} # {}
          /\ LET b == Kmalloc IN
             /\ block' = [x \in Blocks |->
                             IF x = b THEN [used |-> TRUE, type |-> r.type, ts |-> r.size, next |-> NULL]
                             ELSE IF x = m.last /\ m.first # NULL THEN [block[x] EXCEPT !.next = b]
                             ELSE block[x]]
             /\ que' = [que EXCEPT ![q] = [Linked(m, b) EXCEPT !.qnum = @ + 1, !.cbytes = @ + r.size]]
          /\ msgbytes' = msgbytes + r.size
          /\ msghdrs' = msghdrs + 1
          /\ asleep' = Woken(m.rwait)
       \/ UNCHANGED <<block, que, msgbytes, msghdrs, asleep>>
    /\ Goes(p, User)
    /\ UNCHANGED <<slot, seq>>

-----------------------------------------------------------------------------
(* msgrcv                                                                  *)

\* The blocks from b on in list order, n at most.
RECURSIVE From(_, _)
From(b, n) == IF b = NULL \/ n = 0 THEN <<>> ELSE <<b>> \o From(block[b].next, n - 1)
List(q) == From(que[q].first, Cardinality(Blocks))

\* The message a receiver that wants w takes: the first, the first of (not of) a type, or
\* the first of the least type if that is at most -typ; NULL if there is none.
Found(q, w) ==
    LET l == List(q)
        fit == {i \in 1..Len(l) :
                   LET t == block[l[i]].type IN
                   \/ w.typ = 0
                   \/ w.typ > 0 /\ (t = w.typ) # w.except
                   \/ w.typ < 0 /\ t <= -w.typ /\ \A j \in 1..Len(l) : block[l[j]].type >= t}
    IN  IF fit = {} THEN NULL ELSE l[Min(fit)]

Before(q, b) == CHOOSE c \in Blocks : \E i \in 2..Len(List(q)) : List(q)[i] = b /\ List(q)[i - 1] = c

\* Seeded slip: the last message leaves msg_last pointing at it.
UnlinkedLast(q, b) == [que[q] EXCEPT !.first = IF @ = b THEN block[b].next ELSE @,
                                     !.qnum = @ - 1, !.cbytes = @ - block[b].ts]

\* The queue without b.
Unlinked(q, b) ==
    LET m == que[q] IN
    [m EXCEPT !.first = IF @ = b THEN block[b].next ELSE @,
              !.last = IF m.qnum = 1 THEN NULL ELSE IF @ = b /\ m.first # b THEN Before(q, b) ELSE @,
              !.qnum = @ - 1,
              !.cbytes = @ - block[b].ts]

\* The while loop of msgrcv, up to the copy or the sleep.
ReceiveTry(p, r) ==
    LET q == r.q  w == r.want  b == Found(q, w)  live == que[q].state = "live" IN
    \/ /\ live /\ b = NULL /\ ~r.nowait
       /\ Goes(p, [r EXCEPT !.pc = "rwait"])
       /\ que' = [que EXCEPT ![q].rwait = @ \cup {p}]
       /\ asleep' = asleep \cup {p}
       /\ UNCHANGED <<block, msgbytes, msghdrs>>
    \/ /\ \/ ~live                                             \* -EIDRM
          \/ live /\ b = NULL /\ r.nowait                      \* -ENOMSG
          \/ live /\ b # NULL /\ w.msgsz < block[b].ts /\ ~w.noerror     \* -E2BIG
       /\ Goes(p, User)
       /\ que' = [que EXCEPT ![q].rwait = @ \ {p}]
       /\ UNCHANGED <<asleep, block, msgbytes, msghdrs>>
    \/ /\ live /\ b # NULL /\ (w.msgsz >= block[b].ts \/ w.noerror)
       /\ Goes(p, [r EXCEPT !.pc = "rcopy", !.block = b,
                            !.size = IF w.msgsz > block[b].ts THEN block[b].ts ELSE w.msgsz])
       /\ que' = [que EXCEPT ![q] = [Unlinked(q, b) EXCEPT !.rwait = @ \ {p}]]
       /\ block' = IF b = que[q].first THEN block ELSE [block EXCEPT ![Before(q, b)].next = block[b].next]
       /\ msgbytes' = msgbytes - block[b].ts
       /\ msghdrs' = msghdrs - 1
       /\ asleep' = Woken(que[q].wwait)

msgrcv(p, w, nw) ==
    /\ proc[p].pc = "user" /\ slot \in Queues
    /\ ReceiveTry(p, [User EXCEPT !.q = slot, !.want = w, !.nowait = nw])
    /\ UNCHANGED <<slot, seq>>

msgrcv_woken(p) ==
    /\ proc[p].pc = "rwait" /\ p \notin asleep
    /\ ReceiveTry(p, proc[p])
    /\ UNCHANGED <<slot, seq>>

\* kfree_s refuses a block whose length is not the size it is given.
Kfree_s(b, size) == block' = [block EXCEPT ![b] = IF size = @.ts THEN NoBlock ELSE [@ EXCEPT !.next = NULL]]

\* memcpy_tofs is done.
msgrcv_copied(p) ==
    /\ proc[p].pc = "rcopy"
    /\ Kfree_s(proc[p].block, proc[p].size)
    /\ Goes(p, User)
    /\ UNCHANGED <<slot, seq, que, msgbytes, msghdrs, asleep>>

-----------------------------------------------------------------------------
(* freeque                                                                 *)

\* Seeded slip: the queue is freed without waiting for its sleepers.
SleepersGoneAny(q) == TRUE

\* while (msq->rwait || msq->wwait)
SleepersGone(q) == que[q].rwait = {} /\ que[q].wwait = {}

\* The loop of freeque for the queue q: wake the sleepers and yield, or free it all.
FreeTry(p, q) ==
    \/ /\ ~SleepersGone(q)
       /\ asleep' = asleep \ (que[q].rwait \cup que[q].wwait)
       /\ Goes(p, [User EXCEPT !.pc = "free", !.q = q])
       /\ que' = [que EXCEPT ![q].state = "dying"]
       /\ UNCHANGED <<block, msghdrs>>
    \/ /\ SleepersGone(q)
       /\ Goes(p, User)
       /\ block' = [b \in Blocks |-> IF \E i \in 1..Len(List(q)) : List(q)[i] = b THEN NoBlock ELSE block[b]]
       /\ msghdrs' = msghdrs - Len(List(q))
       /\ que' = [que EXCEPT ![q].state = "freed", ![q].first = NULL, ![q].last = NULL]
       /\ UNCHANGED asleep

\* msgctl(IPC_RMID)
freeque(p) ==
    /\ proc[p].pc = "user" /\ slot \in Queues /\ seq < MaxSeq
    /\ slot' = NULL
    /\ seq' = seq + 1
    /\ msgbytes' = msgbytes - que[slot].cbytes
    /\ FreeTry(p, slot)

freeque_again(p) ==
    /\ proc[p].pc = "free"
    /\ FreeTry(p, proc[p].q)
    /\ UNCHANGED <<slot, seq, msgbytes>>

\* A signal ends a sleep; the loop then tries once more before it gives up with -EINTR.
post_signal(p) ==
    /\ proc[p].pc \in {"rwait", "wwait"} /\ ~proc[p].nowait
    /\ asleep' = asleep \ {p}
    /\ Goes(p, [proc[p] EXCEPT !.nowait = TRUE])
    /\ UNCHANGED <<slot, seq, que, block, msgbytes, msghdrs>>

Step(p) == \/ newque_done(p) \/ msgsnd_woken(p) \/ msgsnd_queue(p) \/ msgrcv_woken(p) \/ msgrcv_copied(p)
           \/ freeque_again(p)

Next == \E p \in Procs :
            \/ newque(p) \/ freeque(p) \/ post_signal(p) \/ Step(p)
            \/ \E nw \in BOOLEAN : \/ \E t \in Types, n \in Sizes : msgsnd(p, t, n, nw)
                                   \/ \E w \in Wanted : msgrcv(p, w, nw)

Spec == Init /\ [][Next]_vars

-----------------------------------------------------------------------------
Live == {q \in Queues : que[q].state \in {"live", "dying"}}
Listed(q) == {List(q)[i] : i \in 1..Len(List(q))}
ToSize(B) == MapThenSumSet(LAMBDA b : block[b].ts, B)

\* The list, its end pointer and the counts agree, for every queue and system-wide.
ListsExact ==
    /\ \A q \in Live :
          /\ Len(List(q)) = que[q].qnum /\ Cardinality(Listed(q)) = que[q].qnum
          /\ que[q].qnum > 0 => que[q].last = List(q)[Len(List(q))] /\ block[que[q].last].next = NULL
          /\ que[q].qnum = 0 => que[q].last = NULL
          /\ que[q].cbytes = ToSize(Listed(q))
          /\ \A b \in Listed(q) : block[b].used
    /\ msgbytes = IF slot \in Queues THEN que[slot].cbytes ELSE 0
    /\ msghdrs = MapThenSumSet(LAMBDA q : Len(List(q)), Live)

\* Nobody sleeps on a queue without a reason: a receiver only while nothing it wants is
\* there, a sender only while its message does not fit, and both only until the queue
\* is removed.
SleepersHaveReason ==
    \A p \in asleep :
        LET r == proc[p] IN
        /\ que[r.q].state = "live"
        /\ \/ r.pc = "rwait" /\ Found(r.q, r.want) = NULL
           \/ r.pc = "wwait" /\ Full(r.q, r.size)

\* No queue is freed while a process is in one of its wait queues.
FreedUnused == \A p \in Procs : proc[p].pc \in {"rwait", "wwait"} => que[proc[p].q].state # "freed"

\* A block is free, or in a queue, or being received.
NoBlockLost == \A b \in Blocks : block[b].used =>
                  \/ \E q \in Live : b \in Listed(q)
                  \/ \E p \in Procs : proc[p].pc = "rcopy" /\ proc[p].block = b
=============================================================================
