--------------------------------- MODULE Shm ---------------------------------
(***************************************************************************)
(* System V shared memory segments, ipc/shm.c: the table of segments by    *)
(* key and id, and their attachment to processes.  kmalloc, shm_map,       *)
(* unmap_page_range and swap_free sleep; a step is the code between two    *)
(* sleep points.  A segment is known by its slot and its sequence number.  *)
(***************************************************************************)
EXTENDS Integers, FiniteSets, FiniteSetsExt

CONSTANTS Procs,
          Started,                \* the processes that run at first
          SHMMNI, SHMALL,
          Keys, Sizes,            \* keys (IPC_PRIVATE apart) and sizes in pages
          MaxSeq                  \* bound on the segments ever destroyed

VARIABLES segs,                   \* shm_segs
          max_shmid, shm_seq, shm_tot,
          asleep,                 \* sleepers on shm_lock
          proc,                   \* the call a process is in
          att                     \* current->shm: the segments attached

vars == <<segs, max_shmid, shm_seq, shm_tot, asleep, proc, att>>
table == <<segs, max_shmid, shm_seq, shm_tot>>

Ids == 0..(SHMMNI - 1)
PRIVATE == "private"
UNUSED == [use |-> "unused"]
IPC_NOID == [use |-> "noid"]
Seg(k, q, n) == [use |-> "seg", key |-> k, seq |-> q, npages |-> n, nattch |-> 0, dest |-> FALSE]
IsSeg(s) == s.use = "seg"

\* id: a slot; seq, n: of the segment worked on; child: of a fork
Idle == [pc |-> "user", id |-> 0, key |-> PRIVATE, seq |-> 0, n |-> 0, exiting |-> FALSE]
Dead == [Idle EXCEPT !.pc = "dead"]

\* shm_init
Init == /\ segs = [i \in Ids |-> UNUSED]
        /\ max_shmid = 0 /\ shm_seq = 0 /\ shm_tot = 0
        /\ asleep = {}
        /\ proc = [p \in Procs |-> IF p \in Started THEN Idle ELSE Dead]
        /\ att = [p \in Procs |-> {}]

Goes(p, r) == proc' = [proc EXCEPT ![p] = r]

-----------------------------------------------------------------------------
(* shmget                                                                  *)

\* newseg up to kmalloc: the lowest unused slot is marked as being allocated.
StartNew(p, key, n) ==
    LET unused == {i \in Ids : segs[i] = UNUSED} IN
    \/ /\ shm_tot + n >= SHMALL \/ unused = {}     \* -ENOSPC
       /\ Goes(p, Idle)
       /\ UNCHANGED segs
    \/ /\ ~(shm_tot + n >= SHMALL \/ unused = {})
       /\ segs' = [segs EXCEPT ![Min(unused)] = IPC_NOID]
       /\ Goes(p, [Idle EXCEPT !.pc = "alloc", !.id = Min(unused), !.key = key, !.n = n])

\* findkey from slot i on, and what sys_shmget does with the answer.
Find(p, key, n, i) ==
    LET hits == {j \in i..max_shmid : segs[j] = IPC_NOID \/ (IsSeg(segs[j]) /\ segs[j].key = key)} IN
    \/ /\ hits # {} /\ segs[Min(hits)] = IPC_NOID
       /\ asleep' = asleep \cup {p}
       /\ Goes(p, [Idle EXCEPT !.pc = "find", !.id = Min(hits), !.key = key, !.n = n])
       /\ UNCHANGED segs
    \/ /\ hits # {} /\ segs[Min(hits)] # IPC_NOID     \* the id, or an error
       /\ Goes(p, Idle)
       /\ UNCHANGED <<asleep, segs>>
    \/ /\ hits = {}
       /\ \/ StartNew(p, key, n)
          \/ Goes(p, Idle) /\ UNCHANGED segs     \* no IPC_CREAT: -ENOENT
       /\ UNCHANGED asleep

shmget(p, key, n) ==
    /\ proc[p].pc = "user"
    /\ \/ key = PRIVATE /\ StartNew(p, key, n) /\ UNCHANGED asleep
       \/ key # PRIVATE /\ Find(p, key, n, 0)
    /\ UNCHANGED <<max_shmid, shm_seq, shm_tot, att>>

findkey_woken(p) ==
    /\ proc[p].pc = "find" /\ p \notin asleep
    /\ Find(p, proc[p].key, proc[p].n, proc[p].id)
    /\ UNCHANGED <<max_shmid, shm_seq, shm_tot, att>>

\* if (id > max_shmid) max_shmid = id
Raised(i) == IF i > max_shmid THEN i ELSE max_shmid

\* kmalloc has returned.
newseg_done(p) ==
    LET i == proc[p].id  n == proc[p].n IN
    /\ proc[p].pc = "alloc"
    /\ segs' = [segs EXCEPT ![i] = Seg(proc[p].key, shm_seq, n)]
    /\ shm_tot' = shm_tot + n
    /\ max_shmid' = Raised(i)
    /\ asleep' = {}
    /\ Goes(p, Idle)
    /\ UNCHANGED <<shm_seq, att>>

\* Seeded slip: a failed allocation leaves the sleepers asleep.
WokenNone == asleep

\* if (shm_lock) wake_up(&shm_lock)
Woken == {}

newseg_failed(p) ==
    /\ proc[p].pc = "alloc"
    /\ segs' = [segs EXCEPT ![proc[p].id] = UNUSED]
    /\ asleep' = Woken
    /\ Goes(p, Idle)
    /\ UNCHANGED <<max_shmid, shm_seq, shm_tot, att>>

-----------------------------------------------------------------------------
(* killseg                                                                 *)

\* while (max_shmid && (shm_segs[--max_shmid] == IPC_UNUSED))
Lowered(i) == IF i # max_shmid THEN max_shmid
              ELSE LET below == {j \in 0..(i - 1) : segs[j] # UNUSED}
                   IN  IF below = {} THEN 0 ELSE Max(below)

\* The slot is given up; then p frees the n pages, and may sleep. shm_tot comes last.
Kill(p, i, r) ==
    /\ shm_seq < MaxSeq
    /\ segs' = [segs EXCEPT ![i] = UNUSED]
    /\ shm_seq' = shm_seq + 1
    /\ max_shmid' = Lowered(i)
    /\ Goes(p, [r EXCEPT !.pc = "kill", !.n = segs[i].npages])
    /\ UNCHANGED <<shm_tot, asleep>>

\* The end of a call of p. An exiting process starts its next detach, if any is left.
Continue(p) ==
    IF proc[p].exiting /\ att[p] # {}
      THEN \E s \in att[p] : /\ att' = [att EXCEPT ![p] = @ \ {s}]
                             /\ Goes(p, [Idle EXCEPT !.pc = "unmap", !.id = s[1], !.seq = s[2], !.exiting = TRUE])
      ELSE Goes(p, IF proc[p].exiting THEN Dead ELSE Idle) /\ UNCHANGED att

kill_done(p) ==
    /\ proc[p].pc = "kill"
    /\ shm_tot' = shm_tot - proc[p].n
    /\ Continue(p)
    /\ UNCHANGED <<segs, max_shmid, shm_seq, asleep>>

\* shmctl(IPC_RMID)
shmctl_rmid(p, i) ==
    /\ proc[p].pc = "user" /\ IsSeg(segs[i])
    /\ \/ segs[i].nattch <= 0 /\ Kill(p, i, Idle)
       \/ /\ segs[i].nattch > 0
          /\ segs' = [segs EXCEPT ![i].dest = TRUE]
          /\ UNCHANGED <<max_shmid, shm_seq, shm_tot, asleep, proc>>
    /\ UNCHANGED att

-----------------------------------------------------------------------------
(* shmat, shmdt, fork and exit                                             *)

\* sys_shmat up to kmalloc.
shmat(p, i) ==
    /\ proc[p].pc = "user" /\ IsSeg(segs[i]) /\ <<i, segs[i].seq>> \notin att[p]
    /\ Goes(p, [Idle EXCEPT !.pc = "at", !.id = i, !.seq = segs[i].seq])
    /\ UNCHANGED <<table, asleep, att>>

\* Seeded slip: the segment is not looked up again after kmalloc.
SameAny(i, q) == IsSeg(segs[i])

\* shp == shm_segs[id] && shp->shm_perm.seq == shmid / SHMMNI
Same(i, q) == IsSeg(segs[i]) /\ segs[i].seq = q

\* kmalloc has returned: the segment may have gone (-EIDRM), or is held from here on.
shmat_alloc(p) ==
    LET i == proc[p].id IN
    /\ proc[p].pc = "at"
    /\ \/ /\ Same(i, proc[p].seq)
          /\ segs' = [segs EXCEPT ![i].nattch = @ + 1]
          /\ Goes(p, [proc[p] EXCEPT !.pc = "map"])
       \/ Goes(p, Idle) /\ UNCHANGED segs     \* -ENOMEM, -EIDRM
    /\ UNCHANGED <<max_shmid, shm_seq, shm_tot, asleep, att>>

shmat_mapped(p) ==
    /\ proc[p].pc = "map"
    /\ att' = [att EXCEPT ![p] = @ \cup {<<proc[p].id, proc[p].seq>>}]
    /\ Goes(p, Idle)
    /\ UNCHANGED <<table, asleep>>

\* Seeded slip: the last detach kills the segment, marked or not.
LastOutAny(i) == segs[i].nattch <= 1

\* Seeded slip: the count is tested before it goes down.
LastOutEarly(i) == segs[i].nattch <= 0 /\ segs[i].dest

\* --shp->shm_nattch <= 0 && shp->shm_perm.mode & SHM_DEST
LastOut(i) == segs[i].nattch <= 1 /\ segs[i].dest

\* The attachment p had, or tried to make, is gone.
Leave(p, i) ==
    \/ LastOut(i) /\ Kill(p, i, proc[p]) /\ UNCHANGED att
    \/ /\ ~LastOut(i)
       /\ segs' = [segs EXCEPT ![i].nattch = @ - 1]
       /\ Continue(p)
       /\ UNCHANGED <<max_shmid, shm_seq, shm_tot, asleep>>

\* shm_map has failed.
shmat_failed(p) == proc[p].pc = "map" /\ Leave(p, proc[p].id)

\* detach up to unmap_page_range
shmdt(p, s) ==
    /\ proc[p].pc = "user" /\ s \in att[p]
    /\ att' = [att EXCEPT ![p] = @ \ {s}]
    /\ Goes(p, [Idle EXCEPT !.pc = "unmap", !.id = s[1], !.seq = s[2]])
    /\ UNCHANGED <<table, asleep>>

detach_unmapped(p) == proc[p].pc = "unmap" /\ Leave(p, proc[p].id)

\* shm_exit
exit(p) ==
    /\ proc[p].pc = "user"
    /\ \/ /\ att[p] = {}
          /\ Goes(p, Dead) /\ UNCHANGED att
       \/ \E s \in att[p] :
             /\ att' = [att EXCEPT ![p] = @ \ {s}]
             /\ Goes(p, [Idle EXCEPT !.pc = "unmap", !.id = s[1], !.seq = s[2], !.exiting = TRUE])
    /\ UNCHANGED <<table, asleep>>

\* shm_fork up to its kmallocs
fork(p) == /\ proc[p].pc = "user" /\ att[p] # {}
           /\ Goes(p, [Idle EXCEPT !.pc = "fork"])
           /\ UNCHANGED <<table, asleep, att>>

\* The descriptors are copied, or (-ENOMEM) are not.
fork_done(p, c) ==
    /\ proc[p].pc = "fork" /\ proc[c].pc = "dead"
    /\ \/ /\ proc' = [proc EXCEPT ![p] = Idle, ![c] = Idle]
          /\ att' = [att EXCEPT ![c] = att[p]]
          /\ segs' = [i \in Ids |-> IF i \in {s[1] : s \in att[p]}
                                      THEN [segs[i] EXCEPT !.nattch = @ + 1] ELSE segs[i]]
       \/ Goes(p, Idle) /\ UNCHANGED <<att, segs>>
    /\ UNCHANGED <<max_shmid, shm_seq, shm_tot, asleep>>

Next == \E p \in Procs :
            \/ \E k \in Keys \cup {PRIVATE}, n \in Sizes : shmget(p, k, n)
            \/ findkey_woken(p) \/ newseg_done(p) \/ newseg_failed(p) \/ kill_done(p)
            \/ \E i \in Ids : shmctl_rmid(p, i) \/ shmat(p, i)
            \/ shmat_alloc(p) \/ shmat_mapped(p) \/ shmat_failed(p)
            \/ \E s \in att[p] : shmdt(p, s)
            \/ detach_unmapped(p) \/ exit(p) \/ fork(p)
            \/ \E c \in Procs : fork_done(p, c)

Spec == Init /\ [][Next]_vars

-----------------------------------------------------------------------------
Used == {i \in Ids : IsSeg(segs[i])}

\* The attachments of segment i: finished, being made, or being undone.
Holders(i) == {p \in Procs : <<i, segs[i].seq>> \in att[p]}
Moving(i) == {p \in Procs : proc[p].pc \in {"map", "unmap"} /\ proc[p].id = i}

\* A segment is not destroyed, nor its slot given to another, while a process has it
\* attached, attaches it or detaches it; and shm_nattch counts these.
AttachedAlive ==
    /\ \A p \in Procs, s \in UNION {att[q] : q \in Procs} :
          s \in att[p] => IsSeg(segs[s[1]]) /\ segs[s[1]].seq = s[2]
    /\ \A p \in Procs : proc[p].pc \in {"map", "unmap"} =>
          IsSeg(segs[proc[p].id]) /\ segs[proc[p].id].seq = proc[p].seq
    /\ \A i \in Used : segs[i].nattch = Cardinality(Holders(i)) + Cardinality(Moving(i))

\* A segment goes away only when its removal was asked for.
OnlyRemovedGone == \A i \in Ids : IsSeg(segs[i]) /\ segs'[i] = UNUSED =>
                      \/ segs[i].dest
                      \/ \E p \in Procs : proc[p].pc = "user" /\ proc'[p].pc = "kill"

\* A segment marked for destruction is destroyed with its last attachment: none is left
\* over.
NoneLeftOver == \A i \in Used : segs[i].dest => segs[i].nattch > 0

\* A process sleeps in findkey only while the slot it waits for is being allocated.
SleepersHaveReason == \A p \in asleep : proc[p].pc = "find" /\ segs[proc[p].id] = IPC_NOID
=============================================================================
