----------------------------- MODULE InodeCache -----------------------------
(***************************************************************************)
(* The inode cache of fs/inode.c, __iget, iput, get_empty_inode and        *)
(* sync_inodes, with the second extended file system below it: what        *)
(* ext2_read_inode, ext2_write_inode, ext2_new_inode and ext2_free_inode   *)
(* do to an inode and to the bitmap of inodes, under the super block lock. *)
(*                                                                         *)
(* What is in an inode is only told apart by being the latest version or   *)
(* not.  Directories are the set of the inodes that have an entry.         *)
(***************************************************************************)
EXTENDS Integers, FiniteSets, SequencesExt, FiniteSetsExt

CONSTANTS Procs, Inos, NULL,
          NR_INODE,    \* the cache grows up to this many inodes,
          PAGE_INODES, \* by a page of them at a time
          NR_IHASH,
          MaxInodes,   \* bounds the growth
          Syncers,     \* the processes that call sync
          Creators,    \* the processes that create files
          Pipes        \* the processes that make pipes

VARIABLES ic,          \* the inode cache and its file system:
                       \*   inode     the inodes in memory
                       \*   list      all of them, from first_inode on
                       \*   nr_free   nr_free_inodes
                       \*   updating  the lookups of each chain that are in get_empty_inode
                       \*   disk      the inodes on disk: bit of the bitmap, links, contents
                       \*   s_lock    the lock of the super block
                       \*   linked    the inodes with a directory entry
                       \*   asleep, uasleep   the sleepers on inode_wait and update_wait
          proc,
          overlooked   \* history: those asleep while ext2_free_inode cleared an inode

vars == <<ic, proc, overlooked>>

Slots == 1..MaxInodes
hashfn(n) == n % NR_IHASH

Blank == [nr |-> NULL, count |-> 0, dirt |-> FALSE, lock |-> FALSE, nlink |-> 0, latest |-> FALSE]

\* for is the caller of get_empty_inode or write_inode, s the inode at hand, empty the one
\* of get_empty_inode, i the step of sync_inodes or the further reference of a pipe.
User == [pc |-> "user", for |-> NULL, nr |-> NULL, s |-> NULL, empty |-> NULL, i |-> 0]

Init == /\ ic = [inode |-> [s \in Slots |-> Blank], list |-> <<>>, nr_free |-> 0,
                 updating |-> [h \in 0..(NR_IHASH - 1) |-> 0],
                 disk |-> [n \in Inos |-> [used |-> n = 1, nlink |-> IF n = 1 THEN 1 ELSE 0, latest |-> TRUE]],
                 s_lock |-> FALSE, linked |-> {1}, asleep |-> {}, uasleep |-> {}]
        /\ proc = [p \in Procs |-> User]
        /\ overlooked = {}

-----------------------------------------------------------------------------
(* The cache: each operator gives it after a change to c.                  *)

Found(c, n) == {s \in Slots : c.inode[s].nr = n}
Unused(c) == {s \in ToSet(c.list) : c.inode[s].count = 0}

\* clear_inode, once the inode is not locked: it goes to the front of the list.
Clear(c, s) == [c EXCEPT !.inode[s] = Blank,
                         !.list = <<s>> \o Remove(@, s),
                         !.nr_free = IF c.inode[s].count > 0 THEN @ + 1 ELSE @]

\* The end of get_empty_inode.
Take(c, s) == [Clear(c, s) EXCEPT !.inode[s].count = 1, !.inode[s].nlink = 1, !.nr_free = @ - 1]

\* grow_inodes: the new inodes go to the front of the list.
Grown(c) == LET n == Len(c.list)
            IN  [c EXCEPT !.list = [k \in 1..PAGE_INODES |-> n + PAGE_INODES + 1 - k] \o @,
                          !.nr_free = @ + PAGE_INODES]

\* wake_up(&inode_wait), and the end of iput for a clean inode.
Wake(c) == [c EXCEPT !.asleep = {}]
Drop(c, s) == [Wake(c) EXCEPT !.inode[s].count = 0, !.nr_free = @ + 1]

\* Seeded slip: the unused inode that is found again is still counted as free.
HoldUncounted(c, s) == [c EXCEPT !.inode[s].count = @ + 1]

\* A reference more to an inode that __iget has found.
Hold(c, s) == [c EXCEPT !.inode[s].count = @ + 1,
                        !.nr_free = IF c.inode[s].count = 0 THEN @ - 1 ELSE @]

Locked(c, s) == [c EXCEPT !.inode[s].lock = TRUE]

\* The contents of n are changed in the inode s: all others are outdated.
Changed(c, n, s) ==
    [c EXCEPT !.inode = [t \in Slots |-> IF t = s THEN [@[t] EXCEPT !.dirt = TRUE, !.latest = TRUE]
                                         ELSE [@[t] EXCEPT !.latest = @ /\ c.inode[t].nr # n]],
              !.disk[n].latest = FALSE]

Goes(p, r, c) == /\ ic' = c
                 /\ proc' = [proc EXCEPT ![p] = r]
                 /\ overlooked' = overlooked \cap c.asleep
Held(s, n) == [User EXCEPT !.pc = "held", !.s = s, !.nr = n]
At(p, pc) == proc[p].pc = pc

-----------------------------------------------------------------------------
(* iput                                                                    *)

\* Seeded slip: the inode is not written.
IputUnwritten(p, r, s, c) ==
    Goes(p, r, IF c.inode[s].count > 1 THEN [c EXCEPT !.inode[s].count = @ - 1] ELSE Drop(c, s))

\* iput from repeat on; then as r says.  put_inode of an inode without links sleeps to
\* truncate it; write_inode locks the inode and sleeps for its block.
Iput(p, r, s, c) ==
    LET I == c.inode[s] IN
    IF I.count > 1 THEN Goes(p, r, [c EXCEPT !.inode[s].count = @ - 1])
    ELSE IF I.nr # NULL /\ I.nlink = 0 THEN Goes(p, [User EXCEPT !.pc = "truncate", !.s = s], Wake(c))
    ELSE IF I.dirt THEN Goes(p, [User EXCEPT !.pc = "write", !.for = "iput", !.s = s], Locked(Wake(c), s))
    ELSE Goes(p, r, Drop(c, s))

iput(p) ==
    LET s == proc[p].s IN
    /\ At(p, "held") /\ proc[p].i = 0
    /\ IF ic.inode[s].lock THEN Goes(p, [User EXCEPT !.pc = "putwait", !.s = s], ic)
       ELSE Iput(p, User, s, ic)

iput_woken(p) ==
    /\ At(p, "putwait") /\ ~ic.inode[proc[p].s].lock
    /\ Iput(p, User, proc[p].s, ic)

-----------------------------------------------------------------------------
(* ext2_free_inode, which put_inode calls for an inode without links       *)

\* clear_inode, unlock_super: and the end of iput.
Freed(p, s, c) == /\ ic' = [Clear(c, s) EXCEPT !.s_lock = FALSE]
                  /\ proc' = [proc EXCEPT ![p] = User]
                  /\ overlooked' = c.asleep

\* With the super block locked: the bit is cleared, and set_inode_dtime sleeps for the
\* block it clears the links in.
FreeBit(p, s) ==
    LET n == ic.inode[s].nr IN
    IF ic.disk[n].used
    THEN Goes(p, [proc[p] EXCEPT !.pc = "dtime"], [ic EXCEPT !.disk[n].used = FALSE, !.s_lock = TRUE])
    ELSE Freed(p, s, ic)

ext2_free_inode(p) ==
    /\ At(p, "truncate")
    /\ IF ic.inode[proc[p].s].count > 1 THEN Goes(p, User, ic)
       ELSE IF ic.s_lock THEN Goes(p, [proc[p] EXCEPT !.pc = "freesuper"], ic)
       ELSE FreeBit(p, proc[p].s)

free_super_woken(p) == At(p, "freesuper") /\ ~ic.s_lock /\ FreeBit(p, proc[p].s)

\* clear_inode waits until the inode is not locked.
set_inode_dtime(p) ==
    LET s == proc[p].s IN
    /\ At(p, "dtime") /\ ~ic.inode[s].lock
    /\ Freed(p, s, [ic EXCEPT !.disk[ic.inode[s].nr].nlink = 0])

-----------------------------------------------------------------------------
(* __iget, ext2_new_inode and get_pipe_inode around get_empty_inode        *)

\* Seeded slip: lookups that are under way are not waited for.
ReturnEarly(p, s, n, c) == Goes(p, Held(s, n), c)

\* return_it: other lookups of the chain have to be through get_empty_inode.
Return(p, s, n, c) ==
    IF c.updating[hashfn(n)] = 0 THEN Goes(p, Held(s, n), c)
    ELSE Goes(p, [Held(s, n) EXCEPT !.pc = "update"], [c EXCEPT !.uasleep = @ \cup {p}])

PutEmpty(c, e) == IF e = NULL THEN c ELSE Drop(c, e)

\* Seeded slip: the chain is not searched again after get_empty_inode.
SearchOnce(p, r, c) ==
    LET n == r.nr  e == r.empty IN
    \/ e = NULL /\ \E s \in Found(c, n) : ~c.inode[s].lock /\ Return(p, s, n, Hold(c, s))
    \/ e # NULL /\ Goes(p, [r EXCEPT !.pc = "read", !.s = e],
                           [c EXCEPT !.inode[e].nr = n, !.inode[e].lock = TRUE])

\* The search from repeat on, with the inode r.empty in hand: read_inode locks it and sleeps.
Search(p, r, c) ==
    LET n == r.nr  e == r.empty IN
    \/ \E s \in Found(c, n) :
          LET C == Hold(c, s) IN
          IF C.inode[s].lock THEN Goes(p, [r EXCEPT !.pc = "found", !.s = s], C)
          ELSE Return(p, s, n, PutEmpty(C, e))
    \/ /\ Found(c, n) = {}
       /\ Goes(p, [r EXCEPT !.pc = "read", !.s = e],
                  [c EXCEPT !.inode[e].nr = n, !.inode[e].lock = TRUE, !.list = Append(Remove(@, e), e)])

\* ext2_new_inode with the super block locked: it takes the first free bit, and
\* inc_inode_version sleeps.
NewIno(p, r, c) ==
    LET free == {n \in Inos : ~c.disk[n].used}  n == Min(free)  e == r.empty IN
    IF free = {} THEN Goes(p, User, Drop(c, e))
    ELSE Goes(p, [r EXCEPT !.pc = "version", !.s = e],
                 Changed([c EXCEPT !.disk[n].used = TRUE, !.inode[e].nr = n, !.s_lock = TRUE], n, e))

\* Seeded slip: nobody on update_wait is woken.
UpdatedSilently(c, h) == [c EXCEPT !.updating[h] = @ - 1]

\* if (!--h->updating) wake_up(&update_wait);
Updated(c, h) == [c EXCEPT !.updating[h] = @ - 1, !.uasleep = IF c.updating[h] = 1 THEN {} ELSE @]

\* get_empty_inode has returned r.empty.
GotEmpty(p, r, c) ==
    \/ r.for = "iget" /\ Search(p, r, Updated(c, hashfn(r.nr)))
    \/ r.for = "pipe" /\ Goes(p, [r EXCEPT !.pc = "page"], c)
    \/ r.for = "new" /\ ~c.s_lock /\ NewIno(p, r, c)
    \/ r.for = "new" /\ c.s_lock /\ Goes(p, [r EXCEPT !.pc = "newsuper"], c)

\* get_empty_inode from repeat on: the first unused inode.  That it is neither dirty nor
\* locked, so that it need not be waited for, is a part of RefsExact.
GetEmpty(p, r, c) ==
    LET free == SelectSeq(c.list, LAMBDA s : c.inode[s].count = 0) IN
    \/ free # <<>> /\ GotEmpty(p, [r EXCEPT !.empty = free[1]], Take(c, free[1]))
    \/ free = <<>> /\ Len(c.list) < NR_INODE /\ Goes(p, [r EXCEPT !.pc = "grow"], c)
    \/ /\ free = <<>> /\ Len(c.list) >= NR_INODE
       /\ Goes(p, [r EXCEPT !.pc = "nofree"], [c EXCEPT !.asleep = @ \cup {p}])

\* The cache grows early when few of its inodes are unused.
get_empty_inode(p, r, c) ==
    IF Len(c.list) < NR_INODE /\ c.nr_free < Len(c.list) \div 4 THEN Goes(p, [r EXCEPT !.pc = "grow"], c)
    ELSE GetEmpty(p, r, c)

iget(p, n) ==
    LET r == [User EXCEPT !.for = "iget", !.nr = n] IN
    /\ At(p, "user") /\ n \in ic.linked
    /\ IF Found(ic, n) # {} THEN Search(p, r, ic)
       ELSE get_empty_inode(p, r, [ic EXCEPT !.updating[hashfn(n)] = @ + 1])

ext2_new_inode(p) == /\ At(p, "user") /\ p \in Creators
                     /\ get_empty_inode(p, [User EXCEPT !.for = "new"], ic)

get_pipe_inode(p) == /\ At(p, "user") /\ p \in Pipes
                     /\ get_empty_inode(p, [User EXCEPT !.for = "pipe"], ic)

\* get_free_page has slept, and found a page or not.
grow_inodes(p) ==
    /\ At(p, "grow")
    /\ \/ Len(ic.list) + PAGE_INODES <= MaxInodes /\ GetEmpty(p, proc[p], Grown(ic))
       \/ GetEmpty(p, proc[p], ic)

inode_woken(p) == At(p, "nofree") /\ p \notin ic.asleep /\ GetEmpty(p, proc[p], ic)

\* The inode that was found is not locked any more.  OneInode says that it is still the
\* one that was looked for.
found_woken(p) ==
    LET r == proc[p] IN
    /\ At(p, "found") /\ ~ic.inode[r.s].lock /\ ic.inode[r.s].nr = r.nr
    /\ Return(p, r.s, r.nr, PutEmpty(ic, r.empty))

\* ext2_read_inode has the block of the inode.
read_inode(p) ==
    LET s == proc[p].s  n == proc[p].nr IN
    /\ At(p, "read")
    /\ Return(p, s, n, [ic EXCEPT !.inode[s] = [@ EXCEPT !.lock = FALSE, !.nlink = ic.disk[n].nlink,
                                                         !.latest = ic.disk[n].latest]])

\* sleep_on(&update_wait) is over.
update_woken(p) == At(p, "update") /\ p \notin ic.uasleep /\ Return(p, proc[p].s, proc[p].nr, ic)

new_super_woken(p) == At(p, "newsuper") /\ ~ic.s_lock /\ NewIno(p, proc[p], ic)

\* inc_inode_version has slept; ext2_create makes the entry.
inc_inode_version(p) ==
    LET s == proc[p].s  n == ic.inode[s].nr IN
    /\ At(p, "version")
    /\ Goes(p, Held(s, n), [ic EXCEPT !.s_lock = FALSE, !.linked = @ \cup {n}])

\* The page of the pipe is there, or not; a pipe has two references.
pipe_page(p) ==
    LET e == proc[p].empty IN
    /\ At(p, "page")
    /\ \/ Goes(p, [Held(e, NULL) EXCEPT !.i = 1], [ic EXCEPT !.inode[e].count = 2])
       \/ Goes(p, User, Drop(ic, e))

\* The first of the two ends of a pipe is closed.
close_end(p) == /\ At(p, "held") /\ proc[p].i = 1
                /\ Iput(p, Held(proc[p].s, NULL), proc[p].s, ic)

-----------------------------------------------------------------------------
(* What the owner of a reference does, locked or not                       *)

Owns(p) == At(p, "held") /\ proc[p].nr # NULL

notify_change(p) == Owns(p) /\ Goes(p, proc[p], Changed(ic, proc[p].nr, proc[p].s))

ext2_unlink(p) ==
    LET s == proc[p].s  n == proc[p].nr IN
    /\ Owns(p) /\ n \in ic.linked
    /\ Goes(p, proc[p], [Changed(ic, n, s) EXCEPT !.inode[s].nlink = 0, !.linked = @ \ {n}])

-----------------------------------------------------------------------------
(* write_inode, sync_inodes, and invalidate_inodes                         *)

\* sync_inodes walks the list twice: from the k-th inode of the list on, with i steps done,
\* it goes on to the next that is locked or dirty.
Walk(p, k, i, c) ==
    LET at(j) == c.list[((k - 1 + j - i) % Len(c.list)) + 1]
        stops == {j \in i..(2 * Len(c.list) - 1) : c.inode[at(j)].lock \/ c.inode[at(j)].dirt}
        j == Min(stops)
        r == [User EXCEPT !.for = "sync", !.s = at(j), !.i = j]
    IN  IF stops = {} THEN Goes(p, User, c)
        ELSE IF c.inode[at(j)].lock THEN Goes(p, [r EXCEPT !.pc = "syncwait"], c)
        ELSE Goes(p, [r EXCEPT !.pc = "write"], Locked(c, at(j)))

sync_inodes(p) == At(p, "user") /\ p \in Syncers /\ Walk(p, 1, 0, ic)

Index(s) == CHOOSE k \in 1..Len(ic.list) : ic.list[k] = s

sync_woken(p) == /\ At(p, "syncwait") /\ ~ic.inode[proc[p].s].lock
                 /\ Walk(p, Index(proc[p].s), proc[p].i, ic)

\* ext2_update_inode has the block, and copies the inode to it as it is now.
Written(c, s) == [c EXCEPT !.inode[s] = [@ EXCEPT !.dirt = FALSE, !.lock = FALSE],
                           !.disk[c.inode[s].nr] = [@ EXCEPT !.nlink = c.inode[s].nlink,
                                                             !.latest = c.inode[s].latest]]

\* write_inode is done: iput repeats its test, sync_inodes takes the next inode.
write_inode(p) ==
    LET s == proc[p].s  C == Written(ic, s) IN
    /\ At(p, "write")
    /\ \/ proc[p].for = "iput" /\ Iput(p, User, s, C)
       \/ proc[p].for = "sync" /\ Walk(p, Index(s) + 1, proc[p].i + 1, C)

\* All inodes of the device that nobody uses are cleared, one after the other.
invalidate_inodes(p) ==
    LET gone == SelectSeq(ic.list, LAMBDA s : LET I == ic.inode[s] IN
                                              I.nr # NULL /\ I.count = 0 /\ ~I.dirt /\ ~I.lock)
    IN
    /\ At(p, "user") /\ p \in Syncers
    /\ Goes(p, User, FoldLeft(Clear, ic, gone))

Next == \E p \in Procs :
    \/ \E n \in Inos : iget(p, n)
    \/ iput(p) \/ iput_woken(p)
    \/ ext2_free_inode(p) \/ free_super_woken(p) \/ set_inode_dtime(p)
    \/ ext2_new_inode(p) \/ new_super_woken(p) \/ inc_inode_version(p)
    \/ get_pipe_inode(p) \/ pipe_page(p) \/ close_end(p)
    \/ grow_inodes(p) \/ inode_woken(p) \/ found_woken(p) \/ read_inode(p) \/ update_woken(p)
    \/ notify_change(p) \/ ext2_unlink(p)
    \/ sync_inodes(p) \/ sync_woken(p) \/ write_inode(p) \/ invalidate_inodes(p)

Spec == Init /\ [][Next]_vars

-----------------------------------------------------------------------------
\* An inode has one copy in memory: no two inodes in memory are the same one on disk, and
\* the one a process uses, or has found and waits for, is not another one by then (__iget
\* never prints "inode changed from under us").
OneInode ==
    /\ \A s, t \in Slots : s # t /\ ic.inode[s].nr # NULL => ic.inode[s].nr # ic.inode[t].nr
    /\ \A p \in Procs : proc[p].pc \in {"held", "found", "read", "update"} => ic.inode[proc[p].s].nr = proc[p].nr

\* No change is lost: who uses an inode that has been read sees the latest version of it,
\* and an inode that is not in memory is up to date on disk.
NoChangeLost ==
    /\ \A p \in Procs : At(p, "held") /\ proc[p].nr # NULL => ic.inode[proc[p].s].latest
    /\ \A n \in ic.linked : Found(ic, n) = {} => ic.disk[n].latest

Refs(s) == Cardinality({p \in Procs : proc[p].s = s /\ proc[p].for # "sync" /\ proc[p].pc # "user"})
           + Cardinality({p \in Procs : proc[p].empty = s /\ proc[p].s # s})
           + Cardinality({p \in Procs : proc[p].s = s /\ proc[p].i = 1 /\ At(p, "held")})

\* References are counted exactly, nr_free_inodes is the number of unused inodes, and
\* those are neither dirty nor locked: get_empty_inode need not wait for the one it takes.
RefsExact ==
    /\ \A s \in Slots : ic.inode[s].count = Refs(s)
    /\ ic.nr_free = Cardinality(Unused(ic))
    /\ \A s \in Unused(ic) : ~ic.inode[s].dirt /\ ~ic.inode[s].lock

\* Nobody sleeps on update_wait when no lookup of the chain is in get_empty_inode, nor on
\* inode_wait when there is an unused inode: except one that ext2_free_inode has cleared,
\* which wakes nobody.
SleepersHaveReason ==
    /\ \A p \in ic.uasleep : ic.updating[hashfn(proc[p].nr)] > 0
    /\ \A p \in ic.asleep : p \in overlooked \/ Unused(ic) = {}

\* ext2_free_inode finds the bit of the inode set ("bit already cleared for inode").
BitSet == \A p \in Procs :
    /\ At(p, "freesuper") \/ (At(p, "truncate") /\ ic.inode[proc[p].s].count = 1)
    /\ ~ic.s_lock
    => ic.disk[ic.inode[proc[p].s].nr].used
=============================================================================
