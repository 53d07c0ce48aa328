------------------------------- MODULE MCCaches -------------------------------
(***************************************************************************)
(* What is kept in memory and counted, for TLC: the buffer cache, with two *)
(* changes of a block or with one and a failing device, the inode cache,   *)
(* and the sockets of the UNIX domain, connected by name or in pairs.  A   *)
(* behaviour is one of the part that view names; none uses the state of    *)
(* another here.                                                           *)
(***************************************************************************)
EXTENDS Integers, TLC

CONSTANTS NULL, Users, Syncer, Buffers, i1, i2, i3, p1, p2

VARIABLES view,
          bh, queue, free_list, data, disk, latest, bad, errors, proc, asleep, cpu, undisturbed, forgotten,
          ic, iproc, overlooked,
          sk, upd, sproc, noinode

bvars == <<bh, queue, free_list, data, disk, latest, bad, errors, proc, asleep, cpu, undisturbed, forgotten>>
ivars == <<ic, iproc, overlooked>>
svars == <<sk, upd, sproc, noinode>>
vars == <<view, bvars, ivars, svars>>

\* Three processes that read every block, one of which also syncs.
B == INSTANCE BufferCache WITH Procs <- Users, Blocks <- 1..3, Syncers <- {Syncer}, Reads <- [p \in Users |-> 1..3],
                               Waits <- BOOLEAN, Changed <- {1}, OthersBusy <- TRUE, MaxWrites <- 2, MaxErrors <- 0

E == INSTANCE BufferCache WITH Procs <- Users, Blocks <- 1..3, Syncers <- {Syncer}, Reads <- [p \in Users |-> 1..3],
                               Waits <- BOOLEAN, Changed <- {1}, OthersBusy <- TRUE, MaxWrites <- 1, MaxErrors <- 1

I == INSTANCE InodeCache WITH Procs <- {i1, i2, i3}, Syncers <- {i1}, Creators <- {i2}, Pipes <- {i3}, Inos <- {1, 2},
                              NR_INODE <- 2, PAGE_INODES <- 1, NR_IHASH <- 1, MaxInodes <- 2, proc <- iproc

\* A server and a client, with room for one connection and a byte; and pairs in which a
\* write wraps.
C == INSTANCE UnixSock WITH Servers <- {p1}, Clients <- {p2}, Pairers <- {}, NSOCKETS <- 3, NR_OPEN <- 2, Inodes <- {1},
                            BUF_SIZE <- 2, Sizes <- {1}, MaxBytes <- 1, NoInode <- FALSE, Shared <- FALSE, proc <- sproc

S == INSTANCE UnixSock WITH Servers <- {}, Clients <- {}, Pairers <- {p1, p2}, NSOCKETS <- 2, NR_OPEN <- 2, Inodes <- {},
                            BUF_SIZE <- 4, Sizes <- {3}, MaxBytes <- 6, NoInode <- TRUE, Shared <- FALSE, proc <- sproc

NoSockets == sk = NULL /\ upd = NULL /\ sproc = NULL /\ noinode = NULL

Init == /\ B!Init
        /\ I!Init
        /\ \/ view \in {"buffers", "errors", "inodes"} /\ NoSockets
           \/ view = "connections" /\ C!Init
           \/ view = "pairs" /\ S!Init

\* Processes that wait for an inode while all are in use rest; buffers always come back.
Next == \/ view = "buffers" /\ B!Next /\ UNCHANGED <<view, ivars, svars>>
        \/ view = "errors" /\ E!Next /\ UNCHANGED <<view, ivars, svars>>
        \/ view = "inodes" /\ I!Next /\ UNCHANGED <<view, bvars, svars>>
        \/ view = "connections" /\ C!Next /\ UNCHANGED <<view, bvars, ivars>>
        \/ view = "pairs" /\ S!Next /\ UNCHANGED <<view, bvars, ivars>>
        \/ view = "inodes" /\ UNCHANGED vars

Spec == Init /\ [][Next]_vars

\* These are only compared.
Symmetry == Permutations(Users \ {Syncer}) \cup Permutations(Buffers)

-----------------------------------------------------------------------------
Blocks == view \in {"buffers", "errors"}

\* OnlyOne of BufferCache, OneInode and BitSet of InodeCache: a block, or an inode, has one
\* copy in memory, which stays what a process got it for; and no inode is freed twice.
OnlyOne == (Blocks => B!OnlyOne) /\ (view = "inodes" => I!OneInode /\ I!BitSet)

\* NothingLost and ReadsLatest of BufferCache, NoChangeLost of InodeCache: the last
\* version is in memory, marked dirty or being written, or on disk, and is what is read.
NothingLost == (Blocks => B!NothingLost /\ B!ReadsLatest) /\ (view = "inodes" => I!NoChangeLost)

\* The references to buffers (TypeOK of BufferCache) and to inodes (RefsExact of
\* InodeCache) are counted exactly; so are those to the data of sockets (RefsExact of
\* UnixSock), whose connected ends agree (PeersAgree).
RefsExact == /\ Blocks => B!TypeOK
             /\ view = "inodes" => I!RefsExact
             /\ view = "connections" => C!RefsExact /\ C!PeersAgree
             /\ view = "pairs" => S!RefsExact /\ S!PeersAgree

\* WakeupDue of BufferCache and SleepersHaveReason of InodeCache: nobody sleeps for a
\* buffer or an inode when nobody is left to release one; SleepersHaveReason of UnixSock:
\* nor for data, space, a client or a server that is there, or gone.
SleepersHaveReason == /\ Blocks => B!WakeupDue
                      /\ view = "inodes" => I!SleepersHaveReason
                      /\ view = "connections" => C!SleepersHaveReason
                      /\ view = "pairs" => S!SleepersHaveReason

\* StreamIntact of UnixSock: what is read is what was written, in order.
StreamIntact == (view = "connections" => C!StreamIntact) /\ (view = "pairs" => S!StreamIntact)

\* SyncUndisturbed of BufferCache, a property of steps: fsync on a quiet list waits for
\* everything.
SyncUndisturbed == B!SyncUndisturbed
=============================================================================
