--------------------------------- MODULE Sem ---------------------------------
(***************************************************************************)
(* System V semaphores, ipc/sem.c: one slot of semary and the arrays that  *)
(* live in it one after the other, told apart by their sequence number;    *)
(* semop with its undo requests, semctl, and the undoing at exit.  A step  *)
(* is the code between two sleep points.                                   *)
(***************************************************************************)
EXTENDS Integers, Sequences, FiniteSets, FiniteSetsExt, SequencesExt

CONSTANTS Procs, Sems, NULL, NOID,
          SEMVMX,              \* a short holds -SEMVMX-1..SEMVMX
          Calls,               \* the arguments of semop: sequences of [num, op, undo]
          Values,              \* the arguments of SETVAL
          MaxSeq               \* bound on the arrays ever created

VARIABLES slot,                \* semary[id]: the array there, NULL (IPC_UNUSED) or NOID
          seq,                 \* sem_seq
          arr,                 \* the arrays by sequence number
          semun,               \* the undo requests of a process, the latest first
          asleep,
          proc                 \* the call a process is in

vars == <<slot, seq, arr, semun, asleep, proc>>

Arrays == 0..MaxSeq

\* undo holds <<process, semid, sem_num>> for the requests on the list sma->undo.
\* base is a history variable: what the operations without SEM_UNDO amount to.
NoArray == [state |-> "none", semval |-> [n \in Sems |-> 0], eventn |-> {}, eventz |-> {},
            undo |-> {}, base |-> [n \in Sems |-> 0]]

\* nowait: the call may not sleep (any more), for IPC_NOWAIT or a pending signal.
User == [pc |-> "user", q |-> 0, ops |-> <<>>, nowait |-> FALSE]

Init == /\ slot = NULL /\ seq = 0
        /\ arr = [q \in Arrays |-> NoArray]
        /\ semun = [p \in Procs |-> <<>>]
        /\ asleep = {}
        /\ proc = [p \in Procs |-> User]

Goes(p, r) == proc' = [proc EXCEPT ![p] = r]

ushort(x) == x % (2 * (SEMVMX + 1))
short(x) == ((x + SEMVMX + 1) % (2 * (SEMVMX + 1))) - (SEMVMX + 1)

\* newary, up to its kmalloc
newary(p) ==
    /\ proc[p].pc = "user" /\ slot = NULL /\ arr[seq].state = "none"
    /\ slot' = NOID
    /\ Goes(p, [User EXCEPT !.pc = "newary"])
    /\ UNCHANGED <<seq, arr, semun, asleep>>

\* ... which fails or succeeds
newary_done(p) ==
    /\ proc[p].pc = "newary"
    /\ \/ slot' = NULL /\ UNCHANGED arr
       \/ slot' = seq /\ arr' = [arr EXCEPT ![seq].state = "live"]
    /\ Goes(p, User)
    /\ UNCHANGED <<seq, semun, asleep>>

-----------------------------------------------------------------------------
(* semop                                                                   *)

Sum(ops, I) == MapThenSumSet(LAMBDA i : ops[i].op, I)
On(ops, n) == {i \in 1..Len(ops) : ops[i].num = n}
WithUndo(ops) == {i \in 1..Len(ops) : ops[i].undo}

\* The operations before which semop stops, and the first of them.
Stops(q, ops) == {i \in 1..Len(ops) : LET v == arr[q].semval[ops[i].num]  op == ops[i].op IN
                                       op + v > SEMVMX \/ op + v < 0 \/ (op = 0 /\ v # 0)}
First(q, ops) == ops[Min(Stops(q, ops))]

\* Seeded slip: a request holds the last operation only.
AdjustedLast(a, s) == IF s = 0 THEN a ELSE -s

\* un->semadj -= sop->sem_op
Adjusted(a, s) == short(a - s)

\* Seeded slip: the waiters for an increase are not woken.
IncreasedNone(q, ops) == {}

\* Those semop wakes: the waiters for an increase if one of ops is one, those for zero if
\* a semaphore passed through zero.
Increased(q, ops) == IF \E i \in 1..Len(ops) : ops[i].op > 0 THEN arr[q].eventn ELSE {}
Zeroed(q, ops) ==
    IF \E i \in 1..Len(ops) : ushort(arr[q].semval[ops[i].num]
                                     + Sum(ops, {j \in On(ops, ops[i].num) : j <= i})) = 0
      THEN arr[q].eventz ELSE {}

\* From slept: with the undo requests un and the array a = arr[r.q], which r's process has
\* left the wait queues of.
OpTry(p, r, a, un) ==
    LET q == r.q  ops == r.ops IN
    \/ /\ a.state = "live" /\ Stops(q, ops) # {}
       /\ LET o == First(q, ops)  v == a.semval[o.num] IN
          /\ ~r.nowait /\ o.op + v <= SEMVMX
          /\ arr' = [arr EXCEPT ![q] = IF o.op = 0 THEN [a EXCEPT !.eventz = @ \cup {p}]
                                                   ELSE [a EXCEPT !.eventn = @ \cup {p}]]
       /\ Goes(p, [r EXCEPT !.pc = "wait"])
       /\ asleep' = asleep \cup {p}
       /\ semun' = [semun EXCEPT ![p] = un]
    \/ /\ \/ a.state # "live"                                         \* -EIDRM
          \/ /\ Stops(q, ops) # {}                                    \* -ERANGE, -EAGAIN, -EINTR
             /\ r.nowait \/ First(q, ops).op + a.semval[First(q, ops).num] > SEMVMX
       /\ arr' = [arr EXCEPT ![q] = a]
       /\ Goes(p, User)
       /\ semun' = [semun EXCEPT ![p] = un]
       /\ UNCHANGED asleep
    \/ /\ a.state = "live" /\ Stops(q, ops) = {}
       /\ arr' = [arr EXCEPT ![q] =
                    [a EXCEPT !.semval = [n \in Sems |-> ushort(@[n] + Sum(ops, On(ops, n)))],
                              !.base = [n \in Sems |-> ushort(@[n] + Sum(ops, On(ops, n) \ WithUndo(ops)))]]]
       /\ semun' = [semun EXCEPT ![p] =
                      [i \in 1..Len(un) |->
                          IF un[i].q = q
                            THEN [un[i] EXCEPT !.adj = Adjusted(@, Sum(ops, On(ops, un[i].num) \cap WithUndo(ops)))]
                            ELSE un[i]]]
       /\ asleep' = asleep \ (Increased(q, ops) \cup Zeroed(q, ops))
       /\ Goes(p, User)

\* The semaphores that semop(id, ops) makes a new undo request for, in this order.
Lacking(p, id, ops) ==
    LET has(n) == \E k \in 1..Len(semun[p]) : semun[p][k].q = id /\ semun[p][k].num = n
        new == {i \in WithUndo(ops) : /\ ~has(ops[i].num)
                                      /\ \A j \in WithUndo(ops) \cap On(ops, ops[i].num) : i <= j}
    IN  [k \in 1..Cardinality(new) |-> ops[SetToSortSeq(new, <)[k]].num]

\* Seeded slip: a new request does not point to the others.
ChainedAlone(S, new) == IF new = {} THEN S ELSE new

\* un->id_next = sma->undo, sma->undo = un
Chained(S, new) == S \cup new

\* semop(id, ops); id may be that of an array that is gone, and then the slot holds
\* another. k of the undo requests are made before -ENOMEM.
semop(p, id, ops, nw) ==
    LET lack == Lacking(p, id, ops) IN
    /\ proc[p].pc = "user" /\ slot \in Arrays
    /\ \E k \in 0..Len(lack) :
         LET un == Reverse([i \in 1..k |-> [q |-> id, num |-> lack[i], adj |-> 0]]) \o semun[p]
             a == [arr[slot] EXCEPT !.undo = Chained(@, {<<p, id, lack[i]>> : i \in 1..k})]
         IN  \/ /\ k = Len(lack) /\ slot = id
                /\ OpTry(p, [User EXCEPT !.q = id, !.ops = ops, !.nowait = nw], a, un)
             \/ /\ k < Len(lack) \/ slot # id
                /\ arr' = [arr EXCEPT ![slot] = a]
                /\ semun' = [semun EXCEPT ![p] = un]
                /\ UNCHANGED <<asleep, proc>>
    /\ UNCHANGED <<slot, seq>>

Left(p, a) == [a EXCEPT !.eventn = @ \ {p}, !.eventz = @ \ {p}]

semop_woken(p) ==
    /\ proc[p].pc = "wait" /\ p \notin asleep
    /\ OpTry(p, proc[p], Left(p, arr[proc[p].q]), semun[p])
    /\ UNCHANGED <<slot, seq>>

-----------------------------------------------------------------------------
(* semctl                                                                  *)

\* Seeded slip: SETVAL leaves the undo requests alone.
ForgottenNone(S) == semun

\* The undo requests on the list S no longer adjust anything.
Forgotten(S) == [p \in Procs |-> [i \in 1..Len(semun[p]) |->
                    IF <<p, semun[p][i].q, semun[p][i].num>> \in S THEN [semun[p][i] EXCEPT !.adj = 0]
                                                                   ELSE semun[p][i]]]

\* What the processes in un adjust semaphore n of array q by, all together.
Owed(un, q, n) ==
    LET I == {<<p, i>> \in Procs \X (1..Cardinality(Arrays \X Sems)) :
                 i <= Len(un[p]) /\ un[p][i].q = q /\ un[p][i].num = n}
    IN  MapThenSumSet(LAMBDA x : un[x[1]][x[2]].adj, I)

\* SETVAL of the semaphores N to v (SETALL sets them all), once the arguments are read.
semctl_set(p, N, v) ==
    /\ proc[p].pc = "user" /\ slot \in Arrays
    /\ semun' = Forgotten({u \in arr[slot].undo : u[3] \in N})
    /\ arr' = [arr EXCEPT ![slot].semval = [n \in Sems |-> IF n \in N THEN v ELSE @[n]],
                          ![slot].base = [n \in Sems |-> IF n \in N THEN ushort(v + Owed(semun', slot, n)) ELSE @[n]]]
    /\ asleep' = asleep \ (arr[slot].eventn \cup arr[slot].eventz)
    /\ UNCHANGED <<slot, seq, proc>>

\* Seeded slip: the array is freed without waiting for its sleepers.
SleepersGoneAny(q) == TRUE

\* while (sma->eventz || sma->eventn)
SleepersGone(q) == arr[q].eventn = {} /\ arr[q].eventz = {}

\* The loop of freeary: wake the sleepers and yield, or free the array.
FreeTry(p, q) ==
    \/ /\ ~SleepersGone(q)
       /\ asleep' = asleep \ (arr[q].eventn \cup arr[q].eventz)
       /\ Goes(p, [User EXCEPT !.pc = "free", !.q = q])
       /\ arr' = [arr EXCEPT ![q].state = "dying"]
    \/ /\ SleepersGone(q)
       /\ arr' = [arr EXCEPT ![q] = [NoArray EXCEPT !.state = "freed"]]
       /\ Goes(p, User)
       /\ UNCHANGED asleep

\* semctl(IPC_RMID)
freeary(p) ==
    /\ proc[p].pc = "user" /\ slot \in Arrays /\ seq < MaxSeq
    /\ slot' = NULL
    /\ seq' = seq + 1
    /\ semun' = Forgotten(arr[slot].undo)
    /\ FreeTry(p, slot)

freeary_again(p) ==
    /\ proc[p].pc = "free"
    /\ FreeTry(p, proc[p].q)
    /\ UNCHANGED <<slot, seq, semun>>

-----------------------------------------------------------------------------
(* sem_exit                                                                *)

\* The rest of the loop of sem_exit for p in the state s = [arr, un, asleep], where un are
\* the requests left; it ends with the requests done, or before one that has to wait.
RECURSIVE Undone(_, _, _)
Undone(p, s, signal) ==
    IF s.un = <<>> THEN s ELSE
    LET u == Head(s.un)  q == u.q  n == u.num  a == s.arr[q]
        rest == [s EXCEPT !.un = Tail(@)]
        off == [s.arr EXCEPT ![q].undo = @ \ {<<p, q, n>>}]   \* *unp = un->id_next
        val == a.semval[n] + u.adj
    IN  IF slot # q THEN Undone(p, rest, signal)
        ELSE IF u.adj = 0 THEN Undone(p, [rest EXCEPT !.arr = off], signal)
        ELSE IF val >= 0
          THEN Undone(p, [rest EXCEPT
                            !.arr = [off EXCEPT ![q].semval[n] = ushort(val)],
                            !.asleep = (@ \ (IF u.adj > 0 THEN a.eventn ELSE {}))
                                          \ (IF ushort(val) = 0 THEN a.eventz ELSE {})], signal)
        ELSE IF signal
          THEN Undone(p, [rest EXCEPT !.arr = [off EXCEPT ![q].base[n] = ushort(@ - u.adj)]], signal)
        ELSE [s EXCEPT !.arr = off]

ExitTry(p, A, signal) ==
    LET s == Undone(p, [arr |-> A, un |-> semun[p], asleep |-> asleep], signal) IN
    /\ semun' = [semun EXCEPT ![p] = s.un]
    /\ \/ /\ s.un = <<>>
          /\ Goes(p, User)               \* the slot of p is free for a new process
          /\ arr' = s.arr /\ asleep' = s.asleep
       \/ /\ s.un # <<>>
          /\ Goes(p, [User EXCEPT !.pc = "exit", !.q = Head(s.un).q])
          /\ arr' = [s.arr EXCEPT ![Head(s.un).q].eventn = @ \cup {p}]
          /\ asleep' = s.asleep \cup {p}

sem_exit(p, signal) ==
    /\ proc[p].pc = "user" /\ semun[p] # <<>>
    /\ ExitTry(p, arr, signal)
    /\ UNCHANGED <<slot, seq>>

sem_exit_woken(p) ==
    /\ proc[p].pc = "exit" /\ p \notin asleep
    /\ ExitTry(p, [arr EXCEPT ![proc[p].q] = Left(p, @)], proc[p].nowait)
    /\ UNCHANGED <<slot, seq>>

\* A signal ends a sleep; the loop then tries once more before it gives up.
post_signal(p) ==
    /\ proc[p].pc \in {"wait", "exit"} /\ ~proc[p].nowait
    /\ asleep' = asleep \ {p}
    /\ Goes(p, [proc[p] EXCEPT !.nowait = TRUE])
    /\ UNCHANGED <<slot, seq, arr, semun>>

-----------------------------------------------------------------------------
Step(p) == newary_done(p) \/ semop_woken(p) \/ freeary_again(p) \/ sem_exit_woken(p)

Next == \E p \in Procs :
            \/ newary(p) \/ freeary(p) \/ post_signal(p) \/ Step(p)
            \/ \E id \in 0..seq, ops \in Calls, nw \in BOOLEAN : semop(p, id, ops, nw)
            \/ \E N \in {Sems} \cup {{n} : n \in Sems}, v \in Values : semctl_set(p, N, v)
            \/ \E signal \in BOOLEAN : sem_exit(p, signal)

Spec == Init /\ [][Next]_vars

-----------------------------------------------------------------------------
\* Nobody sleeps without a reason: semop only while the first operation that cannot be
\* done is one that waits in that queue, and sem_exit only while the adjustment would
\* make the semaphore negative; both only until the array is removed.
SleepersHaveReason ==
    \A p \in asleep :
        LET r == proc[p]  q == r.q  a == arr[q] IN
        /\ a.state = "live"
        /\ r.pc = "wait" => \E i \in Stops(q, r.ops) :
              LET v == a.semval[r.ops[i].num] IN
              \/ r.ops[i].op = 0 /\ v # 0 /\ p \in a.eventz
              \/ r.ops[i].op + v < 0 /\ p \in a.eventn
        /\ r.pc = "exit" => LET u == Head(semun[p]) IN u.q = q /\ a.semval[u.num] + u.adj < 0

\* A semaphore and the adjustments owed to it by the undo requests always add up to what
\* the operations without SEM_UNDO and the last SETVAL made of it, so that when all
\* processes have gone only these are left (in the arithmetic of a ushort, and but for
\* adjustments a signal to the exiting process cut off).
UndoConserved ==
    slot \in Arrays => \A n \in Sems :
        ushort(arr[slot].semval[n] + Owed(semun, slot, n) - arr[slot].base[n]) = 0

\* An undo request of a process for the array in the slot is on the array's list, where
\* sem_exit looks for it ("undo list error"), unless sem_exit is waiting to perform it.
UndoListed ==
    \A p \in Procs : \A i \in 1..Len(semun[p]) :
        LET u == semun[p][i] IN
        u.q = slot /\ ~(proc[p].pc = "exit" /\ i = 1) => <<p, u.q, u.num>> \in arr[u.q].undo

\* No array is freed while a process is in one of its wait queues.
FreedUnused == \A p \in Procs : proc[p].pc \in {"wait", "exit"} => arr[proc[p].q].state # "freed"
=============================================================================
