----------------------------- MODULE BufferCache -----------------------------
(***************************************************************************)
(* The buffer cache of fs/buffer.c: getblk, bread, brelse and sync_buffers *)
(* over buffer heads that processes share, and the block device that reads *)
(* and writes them.                                                        *)
(*                                                                         *)
(* A process runs until it sleeps, but interrupts come at any time; cpu is *)
(* the process inside the loop of sync_buffers, where an interrupt makes a *)
(* difference.  What is in a block is its version: how often it has been   *)
(* changed.  Memory is short: the cache has all the buffers it gets.       *)
(***************************************************************************)
EXTENDS Integers, FiniteSets, SequencesExt, FiniteSetsExt

CONSTANTS Procs, Buffers, Blocks, NULL,
          Reads,      \* the blocks each process reads
          Syncers,    \* the processes that call sync or fsync
          Waits,      \* how they call it: fsync waits, sync does not
          Changed,    \* the blocks that are changed
          OthersBusy, \* whether other devices may use up the requests
          MaxWrites,  \* bounds the changes of a block
          MaxErrors   \* bounds the failures of the device

VARIABLES bh,         \* the buffer heads; io is the command of the request for one, old
                      \* what was in it when it was queued
          queue,      \* the requests of the device, named by their buffers; the first is
                      \* being served
          free_list,
          data,       \* what is in a buffer
          disk,       \* what is on the device
          latest,     \* the last version of a block
          bad,        \* blocks the device has failed to write
          errors,
          proc,
          asleep,     \* the sleepers on buffer_wait
          cpu,
          undisturbed,\* history: the callers of fsync under whom the list has not changed
          forgotten   \* history: the sleepers that sync_buffers has not told of a buffer

vars == <<bh, queue, free_list, data, disk, latest, bad, errors, proc, asleep, cpu, undisturbed, forgotten>>

User == [pc |-> "user", k |-> NULL, b |-> NULL, i |-> 0, pass |-> 0, retry |-> FALSE,
         wait |-> FALSE, goal |-> NULL]

Init == /\ bh = [b \in Buffers |-> [blk |-> NULL, count |-> 0, dirt |-> FALSE, lock |-> FALSE,
                                    uptodate |-> FALSE, io |-> NULL, old |-> 0]]
        /\ queue = <<>>
        /\ free_list \in SetToSeqs(Buffers)
        /\ data = [b \in Buffers |-> 0]
        /\ disk = [k \in Blocks |-> 0]
        /\ latest = disk
        /\ bad = {}
        /\ errors = 0
        /\ proc = [p \in Procs |-> User]
        /\ asleep = {}
        /\ cpu = NULL
        /\ undisturbed = {}
        /\ forgotten = {}

-----------------------------------------------------------------------------
(* Buffer heads: each operator gives the heads after a change to those in  *)
(* B, so that a step can make several.                                     *)

Plus(B, b, n) == [B EXCEPT ![b].count = @ + n]
Found(B, k) == {b \in Buffers : B[b].blk = k}

\* add_request clears b_dirt as it queues the buffer: what is changed from now on makes
\* it dirty again.
Queued(B, b, rw) == [B EXCEPT ![b].lock = TRUE, ![b].dirt = FALSE, ![b].io = rw,
                               ![b].old = IF rw = "WRITE" THEN data[b] ELSE 0]

\* Reads go before writes, and low sectors before high ones.
IN_ORDER(B, b, c) == \/ B[b].io = "READ" /\ B[c].io = "WRITE"
                     \/ B[b].io = B[c].io /\ B[b].blk < B[c].blk

\* add_request: the elevator.
Added(B, b) ==
    LET fits == {i \in 1..(Len(queue) - 1) :
                    /\ IN_ORDER(B, queue[i], b) \/ ~IN_ORDER(B, queue[i], queue[i + 1])
                    /\ IN_ORDER(B, b, queue[i + 1])}
    IN  InsertAt(queue, IF fits = {} THEN Len(queue) + 1 ELSE Min(fits) + 1, b)

\* ll_rw_block: b is locked and queued, counting one reference more if its user waits.
Submit(b, rw, B, n) == LET Q == Queued(B, b, rw) IN bh' = Plus(Q, b, n) /\ queue' = Added(Q, b)

\* Other devices may have taken all requests; make_request then sleeps with b locked.
SleepForRequest(b, B, n) == OthersBusy /\ bh' = Plus([B EXCEPT ![b].lock = TRUE], b, n) /\ UNCHANGED queue

\* put_last_free, and b_next_free
LastFree(b) == Append(Remove(free_list, b), b)
NextFree(b) == LET i == CHOOSE i \in 1..Len(free_list) : free_list[i] = b
               IN  free_list[(i % Len(free_list)) + 1]

Goes(p, r) == proc' = [proc EXCEPT ![p] = r]
At(pc, k, b) == [User EXCEPT !.pc = pc, !.k = k, !.b = b]

-----------------------------------------------------------------------------
(* getblk and bread                                                        *)

\* bread after getblk has returned b: up to the wait for the read.
Got(p, k, b, B) ==
    /\ \/ /\ B[b].uptodate
          /\ Goes(p, At("held", k, b))
          /\ bh' = B
          /\ UNCHANGED queue
       \/ ~B[b].uptodate /\ Goes(p, At("readwait", k, b)) /\ Submit(b, "READ", B, 1)
       \/ ~B[b].uptodate /\ Goes(p, At("readreq", k, b)) /\ SleepForRequest(b, B, 0)
    /\ cpu' = NULL
    /\ UNCHANGED asleep

\* get_hash_table has found b, unlocked and counted.
Hit(p, k, b, B) == /\ Got(p, k, b, B)
                   /\ free_list' = IF B[b].uptodate /\ ~B[b].dirt THEN LastFree(b) ELSE free_list

\* b becomes the buffer of k.
Claim(p, k, b, B) ==
    /\ Got(p, k, b, [B EXCEPT ![b] = [@ EXCEPT !.blk = k, !.count = 1, !.dirt = FALSE, !.uptodate = FALSE]])
    /\ free_list' = LastFree(b)

StartSync(p, r) == /\ Goes(p, [r EXCEPT !.pc = "scan", !.b = Head(free_list), !.i = 2 * Len(free_list)])
                   /\ cpu' = p
                   /\ UNCHANGED <<free_list, asleep>>

\* Seeded slip: a dirty buffer is taken.
TakeDirty(p, k, b, B) == Claim(p, k, b, B)

\* A buffer that is unused and not locked any more: a dirty one is not taken.
Take(p, k, b, B) == \/ B[b].dirt /\ StartSync(p, At("scan", k, b)) /\ bh' = B /\ UNCHANGED queue
                    \/ ~B[b].dirt /\ Claim(p, k, b, B)

\* The victims: the unused buffers that are least dirty and locked; the first is taken.
BADNESS(h) == (IF h.dirt THEN 2 ELSE 0) + (IF h.lock THEN 1 ELSE 0)
Victims(B) == {b \in Buffers : /\ B[b].count = 0
                               /\ \A c \in Buffers : B[c].count = 0 => BADNESS(B[b]) <= BADNESS(B[c])}
Victim(B) == SelectSeq(free_list, LAMBDA b : b \in Victims(B))[1]

\* getblk from repeat on, with the heads B.
Getblk(p, k, B) ==
    \/ \E b \in Found(B, k) :
          \/ ~B[b].lock /\ Hit(p, k, b, Plus(B, b, 1))
          \/ /\ B[b].lock
             /\ Goes(p, At("hash", k, b))
             /\ bh' = Plus(B, b, 2)
             /\ cpu' = NULL
             /\ UNCHANGED <<queue, free_list, asleep>>
    \/ /\ Found(B, k) = {} /\ Victims(B) = {}
       /\ Goes(p, At("bwait", k, NULL))
       /\ bh' = B
       /\ asleep' = asleep \cup {p}
       /\ cpu' = NULL
       /\ UNCHANGED <<queue, free_list>>
    \/ /\ Found(B, k) = {} /\ Victims(B) # {} /\ B[Victim(B)].lock
       /\ Goes(p, At("victim", k, Victim(B)))
       /\ bh' = Plus(B, Victim(B), 1)
       /\ cpu' = NULL
       /\ UNCHANGED <<queue, free_list, asleep>>
    \/ /\ Found(B, k) = {} /\ Victims(B) # {} /\ ~B[Victim(B)].lock
       /\ Take(p, k, Victim(B), B)

Runs(p, pc) == proc[p].pc = pc /\ cpu \in {NULL, p}

bread(p, k) ==
    /\ Runs(p, "user")
    /\ Getblk(p, k, bh)
    /\ UNCHANGED <<data, disk, latest, bad, errors>>

\* __wait_on_buffer is done in get_hash_table.
hash_woken(p) ==
    LET k == proc[p].k  b == proc[p].b  B == Plus(bh, b, -1) IN
    /\ Runs(p, "hash") /\ ~bh[b].lock
    /\ \/ B[b].blk = k /\ Hit(p, k, b, B)
       \/ B[b].blk # k /\ Getblk(p, k, Plus(B, b, -1))
    /\ UNCHANGED <<data, disk, latest, bad, errors>>

\* Seeded slips: the buffer has been found unused, and the block missing, before the sleep.
StillUnusedAny(B, b) == TRUE
StillMissingAny(B, k) == TRUE

\* The tests after the sleep: the buffer is unused, the block not in the cache.
StillUnused(B, b) == B[b].count = 0
StillMissing(B, k) == Found(B, k) = {}

\* __wait_on_buffer is done in getblk.
victim_woken(p) ==
    LET k == proc[p].k  b == proc[p].b  B == Plus(bh, b, -1)
        take == StillUnused(B, b) /\ (B[b].dirt \/ StillMissing(B, k))
    IN
    /\ Runs(p, "victim") /\ ~bh[b].lock
    /\ \/ take /\ Take(p, k, b, B)
       \/ ~take /\ Getblk(p, k, B)
    /\ UNCHANGED <<data, disk, latest, bad, errors>>

\* wake_up(&buffer_wait) has ended the sleep in getblk.
buffer_woken(p) ==
    /\ Runs(p, "bwait") /\ p \notin asleep
    /\ Getblk(p, proc[p].k, bh)
    /\ UNCHANGED <<data, disk, latest, bad, errors>>

\* make_request gets its request.
read_request(p) ==
    LET k == proc[p].k  b == proc[p].b IN
    /\ Runs(p, "readreq")
    /\ Goes(p, At("readwait", k, b))
    /\ Submit(b, "READ", bh, 1)
    /\ UNCHANGED <<free_list, data, disk, latest, bad, errors, asleep, cpu>>
-----------------------------------------------------------------------------
(* brelse, and changes by the owner of a reference                         *)

\* Seeded slip: nobody is told of the unused buffer.
WokenNone(B, b) == asleep

\* if (--buf->b_count) return; wake_up(&buffer_wait);
Woken(B, b) == IF B[b].count > 1 THEN asleep ELSE {}

Release(p, b, B) == /\ bh' = Plus(B, b, -1)
                    /\ asleep' = Woken(B, b)
                    /\ Goes(p, User)

brelse(p) ==
    LET k == proc[p].k  b == proc[p].b IN
    /\ Runs(p, "held")
    /\ \/ ~bh[b].lock /\ Release(p, b, bh)
       \/ /\ bh[b].lock
          /\ bh' = Plus(bh, b, 1)
          /\ Goes(p, At("relwait", k, b))
          /\ UNCHANGED asleep
    /\ UNCHANGED <<queue, free_list, data, disk, latest, bad, errors, cpu>>

\* Seeded slip: the reference of the wait is kept.
brelse_wokenCounted(p) ==
    /\ Runs(p, "relwait") /\ ~bh[proc[p].b].lock
    /\ Release(p, proc[p].b, bh)
    /\ UNCHANGED <<queue, free_list, data, disk, latest, bad, errors, cpu>>

\* brelse has waited for the buffer to be unlocked.
brelse_woken(p) ==
    /\ Runs(p, "relwait") /\ ~bh[proc[p].b].lock
    /\ Release(p, proc[p].b, Plus(bh, proc[p].b, -1))
    /\ UNCHANGED <<queue, free_list, data, disk, latest, bad, errors, cpu>>

\* bread's wait for its read is over; the buffer of a failed read is released.
read_woken(p) ==
    LET k == proc[p].k  b == proc[p].b  B == Plus(bh, b, -1) IN
    /\ Runs(p, "readwait") /\ ~bh[b].lock
    /\ \/ B[b].uptodate /\ Goes(p, At("held", k, b)) /\ bh' = B /\ UNCHANGED asleep
       \/ ~B[b].uptodate /\ Release(p, b, B)
    /\ UNCHANGED <<queue, free_list, data, disk, latest, bad, errors, cpu>>

\* A file system changes what is in its buffer and sets b_dirt, locked or not.
modify(p) ==
    LET k == proc[p].k  b == proc[p].b IN
    /\ Runs(p, "held") /\ k \in Changed /\ latest[k] < MaxWrites
    /\ latest' = [latest EXCEPT ![k] = @ + 1]
    /\ data' = [data EXCEPT ![b] = latest[k] + 1]
    /\ bh' = [bh EXCEPT ![b].dirt = TRUE]
    /\ UNCHANGED <<queue, free_list, disk, bad, errors, proc, asleep, cpu>>
-----------------------------------------------------------------------------
(* sync_buffers                                                            *)

\* sync (wait is FALSE) and fsync.
sync_buffers(p, wait) ==
    /\ Runs(p, "user") /\ p \in Syncers
    /\ StartSync(p, [User EXCEPT !.wait = wait, !.goal = IF wait THEN latest ELSE NULL])
    /\ UNCHANGED <<bh, queue, data, disk, latest, bad, errors>>

\* bh = bh->b_next_free, with retry as the buffer has left it.
Advance(p, retry) == Goes(p, [proc[p] EXCEPT !.pc = "scan", !.b = NextFree(@), !.i = @ - 1, !.retry = retry])

\* Seeded slip: a locked buffer that is skipped does not make another pass necessary.
SkippedForgotten(r) == r.retry

\* A buffer that is locked is skipped unless wait is requested and pass > 0.
Skipped(r) == TRUE

\* The rest of the loop's body for the buffer at hand: write it if it is dirty.
WriteOut(p, B) ==
    LET r == proc[p]  b == r.b IN
    /\ \/ /\ ~B[b].dirt \/ r.pass >= 2
          /\ bh' = B
          /\ Advance(p, r.retry)
          /\ cpu' = p
          /\ UNCHANGED queue
       \/ /\ B[b].dirt /\ r.pass < 2
          /\ Submit(b, "WRITE", B, 0)
          /\ Advance(p, TRUE)
          /\ cpu' = p
       \/ /\ B[b].dirt /\ r.pass < 2
          /\ SleepForRequest(b, B, 1)
          /\ Goes(p, [r EXCEPT !.pc = "syncreq"])
          /\ cpu' = NULL
    /\ UNCHANGED <<free_list, asleep>>

sync_next(p) ==
    LET r == proc[p]  b == r.b IN
    /\ Runs(p, "scan") /\ r.i > 0
    /\ \/ /\ bh[b].lock /\ (~r.wait \/ r.pass = 0)
          /\ Advance(p, Skipped(r))
          /\ UNCHANGED <<bh, queue, free_list, asleep, cpu>>
       \/ /\ bh[b].lock /\ r.wait /\ r.pass > 0
          /\ bh' = Plus(bh, b, 1)
          /\ Goes(p, [r EXCEPT !.pc = "syncwait"])
          /\ cpu' = NULL
          /\ UNCHANGED <<queue, free_list, asleep>>
       \/ ~bh[b].lock /\ WriteOut(p, bh)
    /\ UNCHANGED <<data, disk, latest, bad, errors>>

sync_woken(p) ==
    /\ Runs(p, "syncwait") /\ ~bh[proc[p].b].lock
    /\ WriteOut(p, Plus(bh, proc[p].b, -1))
    /\ UNCHANGED <<data, disk, latest, bad, errors>>

sync_request(p) ==
    /\ Runs(p, "syncreq")
    /\ Submit(proc[p].b, "WRITE", bh, -1)
    /\ Advance(p, TRUE)
    /\ cpu' = p
    /\ UNCHANGED <<free_list, data, disk, latest, bad, errors, asleep>>

\* The end of a pass: another one, or back to the caller.
sync_end(p) ==
    LET r == proc[p]  again == r.wait /\ r.retry /\ r.pass < 2 IN
    /\ Runs(p, "scan") /\ r.i = 0
    /\ \/ /\ again
          /\ StartSync(p, [r EXCEPT !.pass = @ + 1, !.retry = FALSE])
          /\ UNCHANGED <<bh, queue>>
       \/ /\ ~again /\ r.k = NULL
          /\ Goes(p, User)
          /\ cpu' = NULL
          /\ UNCHANGED <<bh, queue, free_list, asleep>>
       \/ ~again /\ r.k # NULL /\ Getblk(p, r.k, bh)
    /\ UNCHANGED <<data, disk, latest, bad, errors>>
-----------------------------------------------------------------------------
(* end_request: the device is done with a buffer. It has written what was  *)
(* there at some time since the buffer was queued.                         *)

\* Seeded slip: a buffer counts as up to date whether or not the device could read it.
UptodateAlways(ok) == TRUE

\* bh->b_uptodate = uptodate
Uptodate(ok) == ok

end_request ==
    LET b == Head(queue)  h == bh[b] IN
    /\ queue # <<>>
    /\ queue' = Tail(queue)
    /\ \E ok \in BOOLEAN, d \in {h.old, data[b]} :
          /\ ok \/ errors < MaxErrors
          /\ errors' = IF ok THEN errors ELSE errors + 1
          /\ bh' = [bh EXCEPT ![b].lock = FALSE, ![b].io = NULL, ![b].old = 0, ![b].uptodate = Uptodate(ok)]
          /\ data' = IF ok /\ h.io = "READ" THEN [data EXCEPT ![b] = disk[h.blk]] ELSE data
          /\ disk' = IF ok /\ h.io = "WRITE" THEN [disk EXCEPT ![h.blk] = d] ELSE disk
          /\ bad' = IF ~ok /\ h.io = "WRITE" THEN bad \cup {h.blk} ELSE bad
    /\ UNCHANGED <<free_list, latest, proc, asleep, cpu>>

Step == \/ end_request
        \/ \E p \in Procs :
              \/ \E k \in Reads[p] : bread(p, k)
              \/ \E w \in Waits : sync_buffers(p, w)
              \/ modify(p) \/ brelse(p) \/ brelse_woken(p)
              \/ hash_woken(p) \/ victim_woken(p) \/ buffer_woken(p) \/ read_request(p) \/ read_woken(p)
              \/ sync_next(p) \/ sync_woken(p) \/ sync_request(p) \/ sync_end(p)

Next == /\ Step
        /\ undisturbed' = {p \in Procs : /\ proc'[p].goal # NULL /\ free_list' = free_list
                                         /\ proc[p].goal = NULL \/ p \in undisturbed}
        /\ forgotten' = {p \in asleep' : \/ p \in forgotten
                                         \/ \E q \in Procs : proc[q].pc \in {"syncwait", "syncreq"} /\ proc'[q] # proc[q]}

Spec == Init /\ [][Next]_vars
-----------------------------------------------------------------------------
References(p, b) == IF proc[p].b # b THEN 0
                    ELSE IF proc[p].pc \in {"hash", "readwait", "relwait"} THEN 2
                    ELSE IF proc[p].pc \in {"held", "readreq", "victim", "syncwait", "syncreq"} THEN 1
                    ELSE 0

\* b_count is the number of references: one for each process getblk has given the buffer
\* to, and one for each that waits for it; and the list holds every buffer once.
TypeOK == /\ \A b \in Buffers : bh[b].count = MapThenSumSet(LAMBDA p : References(p, b), Procs)
          /\ Len(free_list) = Cardinality(Buffers) /\ ToSet(free_list) = Buffers
          /\ \A b \in Buffers : bh[b].io # NULL => bh[b].lock
          /\ ToSet(queue) = {b \in Buffers : bh[b].io # NULL} /\ IsInjective(queue)

\* "this buffer is the only one of its kind": no block has two buffers, whoever slept in
\* getblk, and a buffer stays what a process got it for until it is released.
OnlyOne == /\ \A b, c \in Buffers : bh[b].blk = bh[c].blk /\ bh[b].blk # NULL => b = c
           /\ \A p \in Procs : proc[p].pc \in {"held", "readreq", "readwait", "relwait"} =>
                                 bh[proc[p].b].blk = proc[p].k

\* No change is lost: the last version of a block is in its buffer or, if that does not
\* hold the block (any more), on the device; and what is newer than the device is dirty
\* or being written. (A block whose write failed is given up.)
NothingLost ==
    \A k \in Blocks \ bad :
        \/ disk[k] = latest[k]
        \/ \E b \in Found(bh, k) : data[b] = latest[k] /\ bh[b].uptodate
                                   /\ (bh[b].dirt \/ (bh[b].io = "WRITE" /\ bh[b].old = latest[k]))

\* What a process holds, if it is up to date and not of a block given up, is the last version.
ReadsLatest == \A b \in Buffers : bh[b].uptodate /\ bh[b].blk \notin bad => data[b] = latest[bh[b].blk]

Returns(p) == proc[p].pc = "scan" /\ proc[p].wait /\ proc'[p].pc = "user"
OnDevice(p) == \A k \in Blocks \ bad : disk[k] >= proc[p].goal[k]

\* "ensure that the call does not return until all buffer writes have completed": when
\* sync_buffers with wait returns, all that had been changed before the call is on the
\* device.
SyncDone == [][\A p \in Procs : Returns(p) => OnDevice(p)]_vars

\* The same of a call during which no buffer has changed its place in the list: whatever
\* else is read, changed, written and synced meanwhile, its three passes miss nothing.
SyncUndisturbed == [][\A p \in undisturbed : Returns(p) => OnDevice(p)]_vars

\* Whoever sleeps in getblk for an unused buffer will be woken: somebody has one, or is
\* about to get one, that brelse will release. (Except that sync_buffers does not wake
\* anybody when it drops the last reference.)
WakeupDue == \A p \in asleep \ forgotten : \E q \in Procs :
                \/ proc[q].pc \notin {"user", "bwait", "scan"}
                \/ proc[q].pc = "scan" /\ proc[q].k # NULL
=============================================================================
