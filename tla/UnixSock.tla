------------------------------ MODULE UnixSock ------------------------------
(***************************************************************************)
(* Sockets of the UNIX domain, net/socket.c and net/unix/sock.c.  A socket *)
(* and its unix_proto_data live in two tables; the data stay while a peer  *)
(* refers to them, because a writer writes into the buffer of its peer.    *)
(* A process sleeps for a free socket, for an inode and a page while a     *)
(* socket is made, for a connection in connect and accept, for data, space *)
(* and unix_lock in read and write, and in the copies to and from user     *)
(* space.  A step is the code between two sleep points.                    *)
(*                                                                         *)
(* The inode of a bound name is not locked: iput does not sleep for it.    *)
(***************************************************************************)
EXTENDS Integers, Sequences, FiniteSets, SequencesExt

CONSTANTS Servers,            \* the processes that bind, listen and accept,
          Clients,            \* those that connect,
          Pairers,            \* those that make pairs, and fork
          NSOCKETS,
          NR_OPEN,            \* the files a process may have open
          Inodes,             \* the names in the file system that sockets are bound to
          BUF_SIZE,           \* a power of 2
          Sizes,              \* the counts passed to read and write
          MaxBytes,           \* bound: bytes written into a buffer
          NoInode,            \* whether get_empty_inode may fail
          Shared              \* whether two processes may have the same socket open

Procs == Servers \cup Clients \cup Pairers
Socks == 1..NSOCKETS          \* also the entries of unix_datas
None == 0

VARIABLES sk,        \* sockets
          upd,       \* unix_datas; history: in and out, the bytes put into and taken from the buffer
          proc,      \* the calls of the processes, and their file descriptors
          noinode    \* history: an inode has been wanting

vars == <<sk, upd, proc, noinode>>

FreeSock == [state |-> "FREE", accepts |-> FALSE, data |-> None, conn |-> None, iconn |-> <<>>]
FreeData == [refcnt |-> 0, socket |-> None, inode |-> None, bound |-> FALSE, peerupd |-> None,
             lock |-> FALSE, head |-> 0, tail |-> 0, buf |-> <<>>, in |-> 0, out |-> 0]
User == [pc |-> "user", sock |-> None, new |-> None, upd |-> None, todo |-> 0, n |-> 0, asleep |-> FALSE, signal |-> FALSE]

Init == /\ sk = [s \in Socks |-> FreeSock]
        /\ upd = [u \in Socks |-> FreeData]
        /\ proc = [p \in Procs |-> [call |-> User, fds |-> {}]]
        /\ noinode = FALSE

Lowest(S) == CHOOSE x \in S : \A y \in S : x <= y

-----------------------------------------------------------------------------
(* Processes.  PR is proc as a step makes it.                              *)

\* The call of p is r.
Goes(PR, p, r) == [PR EXCEPT ![p].call = r]

\* It returns, and a signal is taken.
Returns(PR, p) == Goes(PR, p, User)

\* wake_up_interruptible on the wait queues of the sockets S.
Wake(PR, S) == [q \in Procs |-> IF PR[q].call.pc \in {"connect", "accept", "read", "write"} /\ PR[q].call.sock \in S
                                THEN [PR[q] EXCEPT !.call.asleep = FALSE] ELSE PR[q]]

\* On socket_wait_free.
WakeFree(PR) == [q \in Procs |-> IF PR[q].call.pc = "nosock" THEN [PR[q] EXCEPT !.call.asleep = FALSE] ELSE PR[q]]

Runs(p, l) == proc[p].call.pc = l /\ ~proc[p].call.asleep

\* In user mode, with s open.
Has(p, s) == Runs(p, "user") /\ s \in proc[p].fds

\* A process is sent a signal in an interruptible sleep.
send_sig(p) == /\ proc[p].call.asleep
               /\ proc' = [proc EXCEPT ![p].call.asleep = FALSE, ![p].call.signal = TRUE]
               /\ UNCHANGED <<sk, upd>>

-----------------------------------------------------------------------------
(* unix_proto_data.  U is upd as a step makes it.                          *)

unix_data_ref(U, u) == IF u = None THEN U ELSE [U EXCEPT ![u].refcnt = @ + 1]

unix_data_deref(U, u) ==
    IF u = None THEN U
    ELSE LET U1 == IF U[u].refcnt = 1 THEN [U EXCEPT ![u] = [@ EXCEPT !.buf = <<>>, !.head = 0, !.tail = 0, !.in = 0, !.out = 0]] ELSE U
         IN  [U1 EXCEPT ![u].refcnt = @ - 1]

\* The data lose their socket, and with it what only its calls look at.
Left(U, u) == [U EXCEPT ![u] = [@ EXCEPT !.socket = None, !.inode = None, !.bound = FALSE, !.peerupd = None]]

\* Seeded slip: the peer's data are not dereferenced.
unix_proto_release_kept(U, u) == IF u = None THEN U ELSE unix_data_deref(Left(U, u), u)

unix_proto_release(U, u) == IF u = None THEN U ELSE unix_data_deref(unix_data_deref(Left(U, u), U[u].peerupd), u)

unix_data_lookup(i) ==
    LET found == {u \in Socks : /\ upd[u].refcnt > 0 /\ upd[u].socket # None
                                /\ sk[upd[u].socket].state = "UNCONNECTED" /\ upd[u].inode = i}
    IN  IF found = {} THEN None ELSE Lowest(found)

\* UN_BUF_AVAIL and UN_BUF_SPACE: a full buffer keeps a byte free.
Avail(d) == (d.head - d.tail) % BUF_SIZE

\* Seeded slip: the whole buffer is filled.
SpaceWhole(d) == BUF_SIZE - Avail(d)

Space(d) == BUF_SIZE - 1 - Avail(d)

Minimum(a, b) == IF a <= b THEN a ELSE b

-----------------------------------------------------------------------------
(* sock_release                                                            *)

\* Seeded slip: those that wait to be accepted are not told.
release_peers_conn(S, s) == IF S[s].state = "CONNECTED" THEN {S[s].conn} ELSE {}

\* Who gets sock_release_peer: those that wait to be accepted, and the peer.
release_peers(S, s) == Range(S[s].iconn) \cup (IF S[s].state = "CONNECTED" THEN {S[s].conn} ELSE {})

\* From S, U and PR, s is released and its peers are told.  What sock_alloc resets is
\* reset here: nobody looks at it before.
sock_release(S, U, PR, s) ==
    LET peers == release_peers(S, s) IN
    /\ sk' = [x \in Socks |-> IF x = s THEN FreeSock
                              ELSE IF x \in peers THEN [S[x] EXCEPT !.state = "DISCONNECTING"] ELSE S[x]]
    /\ upd' = unix_proto_release(U, S[s].data)
    /\ proc' = WakeFree(Wake(PR, peers))

\* close; the last one releases the socket.
sock_close(p, s) ==
    /\ Has(p, s)
    /\ LET PR == [proc EXCEPT ![p].fds = @ \ {s}] IN
       \/ (\A q \in Procs \ {p} : s \notin proc[q].fds) /\ sock_release(sk, upd, PR, s)
       \/ (\E q \in Procs \ {p} : s \in proc[q].fds) /\ proc' = PR /\ UNCHANGED <<sk, upd>>

\* A child gets the descriptor in fork; without sharing, the parent closes its own.
fork(p, q, s) ==
    /\ Has(p, s) /\ Runs(q, "user") /\ s \notin proc[q].fds
    /\ proc' = [proc EXCEPT ![q].fds = @ \cup {s}, ![p].fds = IF Shared THEN @ ELSE @ \ {s}]
    /\ UNCHANGED <<sk, upd>>

-----------------------------------------------------------------------------
(* socket: sock_socket, sock_alloc, unix_proto_create, get_fd              *)

\* sock_alloc for the call r, up to get_empty_inode; without a free socket, socket()
\* sleeps and accept() fails.
sock_alloc(p, r) ==
    LET free == {s \in Socks : sk[s].state = "FREE"} IN
    \/ /\ free # {}
       /\ sk' = [sk EXCEPT ![Lowest(free)] = [FreeSock EXCEPT !.state = "UNCONNECTED"]]
       /\ proc' = Goes(proc, p, [r EXCEPT !.pc = "inode", !.new = Lowest(free)])
    \/ /\ free = {}
       /\ proc' = IF r.sock = None THEN Goes(proc, p, [r EXCEPT !.pc = "nosock", !.asleep = TRUE]) ELSE Returns(proc, p)
       /\ UNCHANGED sk

sock_socket(p) == Runs(p, "user") /\ sock_alloc(p, User) /\ UNCHANGED upd

sock_alloc_woken(p) ==
    /\ Runs(p, "nosock")
    /\ \/ proc[p].call.signal /\ proc' = Returns(proc, p) /\ UNCHANGED sk
       \/ ~proc[p].call.signal /\ sock_alloc(p, User)
    /\ UNCHANGED upd

\* get_empty_inode has none: nobody is woken on socket_wait_free.
no_inode(p) ==
    /\ NoInode /\ Runs(p, "inode")
    /\ sk' = [sk EXCEPT ![proc[p].call.new] = FreeSock]
    /\ proc' = Returns(proc, p)
    /\ noinode' = TRUE
    /\ UNCHANGED upd

\* get_empty_inode has one; then unix_data_alloc, up to get_free_page.
got_inode(p) ==
    /\ Runs(p, "inode")
    /\ LET r == proc[p].call  free == {u \in Socks : upd[u].refcnt = 0} IN
       \/ free = {} /\ sock_release(sk, upd, Returns(proc, p), r.new)
       \/ /\ free # {}
          /\ upd' = [upd EXCEPT ![Lowest(free)] = [FreeData EXCEPT !.refcnt = -1, !.lock = upd[Lowest(free)].lock]]
          /\ proc' = Goes(proc, p, [r EXCEPT !.pc = "page", !.upd = Lowest(free)])
          /\ UNCHANGED sk

\* No page: unix_data_deref counts the entry, at -1, further down.
no_page(p) ==
    /\ Runs(p, "page")
    /\ sock_release(sk, unix_data_deref(upd, proc[p].call.upd), Returns(proc, p), proc[p].call.new)

\* The socket s and its data u, with a page, as the rest of unix_proto_create leaves them.
CreatedS(s, u) == [sk EXCEPT ![s].data = u]
CreatedU(s, u) == [upd EXCEPT ![u].socket = s, ![u].refcnt = 1, ![u].buf = [c \in 0..(BUF_SIZE - 1) |-> 0]]

\* S, U and PR, and get_fd for the socket s of p: it fails, or p returns with the descriptor.
get_fd(S, U, PR, p, s) ==
    \/ sock_release(S, U, Returns(PR, p), s)
    \/ /\ Cardinality(proc[p].fds) < NR_OPEN
       /\ sk' = S /\ upd' = U /\ proc' = [Returns(PR, p) EXCEPT ![p].fds = @ \cup {s}]

socket_made(p) ==
    /\ Runs(p, "page") /\ proc[p].call.sock = None
    /\ LET r == proc[p].call IN
       /\ get_fd(CreatedS(r.new, r.upd), CreatedU(r.new, r.upd), proc, p, r.new)

-----------------------------------------------------------------------------
(* bind, listen, socketpair, connect                                       *)

\* A fresh name is made and its inode kept.
unix_proto_bind(p, s) ==
    /\ Has(p, s) /\ ~upd[sk[s].data].bound
    /\ \E i \in Inodes : /\ \A u \in Socks : upd[u].inode # i
                         /\ upd' = [upd EXCEPT ![sk[s].data].inode = i, ![sk[s].data].bound = TRUE]
    /\ UNCHANGED <<sk, proc>>

sock_listen(p, s) == /\ Has(p, s) /\ sk[s].state = "UNCONNECTED"
                     /\ sk' = [sk EXCEPT ![s].accepts = TRUE]
                     /\ UNCHANGED <<upd, proc>>

\* The end of socketpair, for two sockets that sock_socket has just made.
sock_socketpair(p, s, t) ==
    /\ Has(p, s) /\ Has(p, t) /\ s # t
    /\ \A x \in {s, t} : sk[x] = [FreeSock EXCEPT !.state = "UNCONNECTED", !.data = sk[x].data] /\ ~upd[sk[x].data].bound
    /\ sk' = [sk EXCEPT ![s].conn = t, ![s].state = "CONNECTED", ![t].conn = s, ![t].state = "CONNECTED"]
    /\ upd' = [unix_data_ref(unix_data_ref(upd, sk[s].data), sk[t].data)
                  EXCEPT ![sk[s].data].peerupd = sk[t].data, ![sk[t].data].peerupd = sk[s].data]
    /\ UNCHANGED proc

\* sock_awaitconn, up to its sleep, for the server that unix_data_lookup finds.
unix_proto_connect(p, s) ==
    /\ Has(p, s) /\ sk[s].state = "UNCONNECTED"
    /\ \E i \in Inodes :
        LET serv == upd[unix_data_lookup(i)].socket IN
        /\ unix_data_lookup(i) # None /\ sk[serv].accepts
        /\ sk' = [sk EXCEPT ![serv].iconn = Append(@, s), ![s].state = "CONNECTING", ![s].conn = serv]
        /\ proc' = Goes(Wake(proc, {serv}), p, [User EXCEPT !.pc = "connect", !.sock = s, !.new = serv, !.asleep = TRUE])
    /\ UNCHANGED upd

\* An interrupted connect takes itself off the list of the server.
Unqueue(S, s, serv) == IF S[s].conn = serv THEN [S EXCEPT ![serv].iconn = SelectSeq(@, LAMBDA x : x # s)] ELSE S

\* The rest of sock_awaitconn and unix_proto_connect.  conn may have been released, and
\* its entry used again, meanwhile: its data are whatever they are now.
connect_woken(p) ==
    /\ Runs(p, "connect")
    /\ LET s == proc[p].call.sock  peer == sk[sk[s].conn].data IN
       \/ /\ sk[s].state = "CONNECTING"
          /\ sk' = Unqueue(sk, s, proc[p].call.new) /\ UNCHANGED upd
       \/ /\ sk[s].state # "CONNECTING"
          /\ upd' = [unix_data_ref(upd, peer) EXCEPT ![sk[s].data].peerupd = peer] /\ UNCHANGED sk
    /\ proc' = Returns(proc, p)

-----------------------------------------------------------------------------
(* accept                                                                  *)

\* sock_accept, up to the inode of the new socket.
sock_accept(p, s) ==
    /\ Has(p, s) /\ sk[s].state = "UNCONNECTED" /\ sk[s].accepts
    /\ sock_alloc(p, [User EXCEPT !.sock = s])
    /\ UNCHANGED upd

\* From S and U, unix_proto_accept for the call r: the first client is connected to the
\* new socket and woken, and get_fd; or p sleeps.
AcceptTry(S, U, p, r) ==
    \/ /\ S[r.sock].iconn # <<>>
       /\ LET c == Head(S[r.sock].iconn)
              S1 == [S EXCEPT ![r.sock].iconn = Tail(@), ![c].conn = r.new, ![c].state = "CONNECTED",
                              ![r.new].conn = c, ![r.new].state = "CONNECTED"]
              U1 == [unix_data_ref(U, S[c].data) EXCEPT ![S[r.new].data].peerupd = S[c].data,
                                                        ![S[r.new].data].bound = U[S[r.sock].data].bound]
          IN  get_fd(S1, U1, Wake(proc, {c}), p, r.new)
    \/ S[r.sock].iconn = <<>> /\ sock_release(S, U, Returns(proc, p), r.new)      \* O_NONBLOCK
    \/ /\ S[r.sock].iconn = <<>>
       /\ sk' = S /\ upd' = U
       /\ proc' = Goes(proc, p, [r EXCEPT !.pc = "accept", !.asleep = TRUE])

\* The new socket is made, by unix_proto_dup.
accept_made(p) ==
    /\ Runs(p, "page") /\ proc[p].call.sock # None
    /\ LET r == proc[p].call IN
       /\ AcceptTry(CreatedS(r.new, r.upd), CreatedU(r.new, r.upd), p, r)

accept_woken(p) ==
    /\ Runs(p, "accept")
    /\ LET r == proc[p].call IN
       \/ r.signal /\ sock_release(sk, upd, Returns(proc, p), r.new)
       \/ ~r.signal /\ AcceptTry(sk, upd, p, r)

-----------------------------------------------------------------------------
(* read and write.  The buffer of a call is upd, and n is avail or space   *)
(* as the call last looked at it: before unix_lock, which may sleep.       *)

\* unix_lock for the call r, which goes on at l, or waits for the lock at w.
Locks(p, r, l, w) ==
    /\ upd' = [upd EXCEPT ![r.upd].lock = TRUE]
    /\ proc' = Goes(proc, p, [r EXCEPT !.pc = IF upd[r.upd].lock THEN w ELSE l])
    /\ UNCHANGED sk

\* unix_unlock and return, from U and PR.
Unlocks(U, PR, p) == /\ upd' = [U EXCEPT ![proc[p].call.upd].lock = FALSE]
                     /\ proc' = Returns(PR, p)

\* verify_area fails, in the first round or in a later one.
bad_area(p) == /\ proc[p].call.pc \in {"rcopy", "wcopy"}
               /\ Unlocks(upd, proc, p)
               /\ UNCHANGED sk

ReadTry(p, r) ==
    LET n == Avail(upd[r.upd]) IN
    \/ n > 0 /\ Locks(p, [r EXCEPT !.n = n], "rcopy", "rcopy_lock")
    \/ /\ n = 0
       /\ proc' = IF sk[r.sock].state = "CONNECTED" THEN Goes(proc, p, [r EXCEPT !.pc = "read", !.asleep = TRUE])
                                                    ELSE Returns(proc, p)
       /\ UNCHANGED <<sk, upd>>

\* sock_read refuses a socket that accepts.
unix_proto_read(p, s) ==
    /\ Has(p, s) /\ ~sk[s].accepts
    /\ \E n \in Sizes : ReadTry(p, [User EXCEPT !.sock = s, !.upd = sk[s].data, !.todo = n])

read_lock(p) == proc[p].call.pc = "rcopy_lock" /\ ~upd[proc[p].call.upd].lock /\ Locks(p, proc[p].call, "rcopy", "rcopy_lock")

read_woken(p) ==
    /\ Runs(p, "read")
    /\ \/ proc[p].call.signal /\ proc' = Returns(proc, p) /\ UNCHANGED <<sk, upd>>
       \/ ~proc[p].call.signal /\ ReadTry(p, proc[p].call)

\* The peer of s is woken if s is connected.
WakePeer(PR, s) == IF sk[s].state = "CONNECTED" THEN Wake(PR, {sk[s].conn}) ELSE PR

\* memcpy_tofs is done: the tail moves, and the next round, or unix_unlock.
read_copied(p) ==
    /\ proc[p].call.pc = "rcopy"
    /\ LET r == proc[p].call  d == upd[r.upd]
           cando == Minimum(Minimum(r.todo, r.n), BUF_SIZE - d.tail)
           U == [upd EXCEPT ![r.upd].tail = (d.tail + cando) % BUF_SIZE, ![r.upd].out = @ + cando]
           PR == WakePeer(proc, r.sock)
           r1 == [r EXCEPT !.todo = @ - cando, !.n = Avail(U[r.upd])]
       IN  /\ IF r1.todo > 0 /\ r1.n > 0 THEN upd' = U /\ proc' = Goes(PR, p, r1) ELSE Unlocks(U, PR, p)
    /\ UNCHANGED sk

WriteTry(p, r) ==
    LET n == Space(upd[r.upd]) IN
    \/ n > 0 /\ Locks(p, [r EXCEPT !.n = n], "wcopy", "wcopy_lock")
    \/ /\ n = 0
       /\ proc' = Goes(proc, p, [r EXCEPT !.pc = "write", !.asleep = TRUE])
       /\ UNCHANGED <<sk, upd>>

unix_proto_write(p, s) ==
    /\ Has(p, s) /\ ~sk[s].accepts /\ sk[s].state = "CONNECTED"
    /\ LET u == upd[sk[s].data].peerupd IN
       \E n \in Sizes : upd[u].in + n <= MaxBytes /\ WriteTry(p, [User EXCEPT !.sock = s, !.upd = u, !.todo = n])

write_woken(p) ==
    /\ Runs(p, "write")
    /\ LET r == proc[p].call  end == r.signal \/ sk[r.sock].state = "DISCONNECTING" IN
       \/ end /\ proc' = Returns(proc, p) /\ UNCHANGED <<sk, upd>>
       \/ ~end /\ WriteTry(p, r)

\* A round of the loop for the call r, up to memcpy_fromfs, from U with the lock held and PR.
WriteRound(U, PR, p, r) ==
    IF sk[r.sock].state = "DISCONNECTING" THEN Unlocks(U, PR, p)
    ELSE upd' = U /\ proc' = Goes(PR, p, [r EXCEPT !.pc = "wcopy"])

write_lock(p) ==
    /\ proc[p].call.pc = "wcopy_lock" /\ ~upd[proc[p].call.upd].lock
    /\ WriteRound([upd EXCEPT ![proc[p].call.upd].lock = TRUE], proc, p, proc[p].call)
    /\ UNCHANGED sk

\* Bytes in+1, in+2, ... are put at the head.
Put(d, n) == [d EXCEPT !.head = (@ + n) % BUF_SIZE, !.in = @ + n,
                           !.buf = [c \in DOMAIN @ |-> IF c \in d.head..(d.head + n - 1) THEN d.in + 1 + c - d.head ELSE @[c]]]

\* memcpy_fromfs is done: the head moves, and the next round, or unix_unlock.
write_copied(p) ==
    /\ proc[p].call.pc = "wcopy"
    /\ LET r == proc[p].call  d == upd[r.upd]
           cando == Minimum(Minimum(r.todo, r.n), BUF_SIZE - d.head)
           U == [upd EXCEPT ![r.upd] = Put(d, cando)]
           PR == WakePeer(proc, r.sock)
           r1 == [r EXCEPT !.todo = @ - cando, !.n = Space(U[r.upd])]
       IN  /\ IF r1.todo > 0 /\ r1.n > 0 THEN WriteRound(U, PR, p, r1) ELSE Unlocks(U, PR, p)
    /\ UNCHANGED sk

-----------------------------------------------------------------------------
Step(p) == \/ sock_alloc_woken(p) \/ got_inode(p) \/ no_page(p) \/ socket_made(p) \/ accept_made(p)
           \/ connect_woken(p) \/ accept_woken(p)
           \/ read_lock(p) \/ read_woken(p) \/ read_copied(p) \/ write_lock(p) \/ write_woken(p) \/ write_copied(p)

Call(p) == \/ sock_socket(p) \/ send_sig(p) \/ bad_area(p)
           \/ \E s \in Socks :
                \/ sock_close(p, s) \/ unix_proto_read(p, s) \/ unix_proto_write(p, s)
                \/ p \in Servers /\ (unix_proto_bind(p, s) \/ sock_listen(p, s) \/ sock_accept(p, s))
                \/ p \in Clients /\ unix_proto_connect(p, s)
                \/ p \in Pairers /\ \/ \E t \in Socks : sock_socketpair(p, s, t)
                                    \/ \E q \in Pairers \ {p} : fork(p, q, s)

Next == \E p \in Procs : no_inode(p) \/ (UNCHANGED noinode /\ (Step(p) \/ Call(p)))

Spec == Init /\ [][Next]_vars

-----------------------------------------------------------------------------
Open(s) == sk[s].state # "FREE" /\ sk[s].data # None
Sleeps(p, l) == proc[p].call.pc = l /\ proc[p].call.asleep

(* unix_proto_data are counted exactly, so that the buffer a socket writes into
   stays until it is closed, even after the peer has disconnected, and then goes:
   an entry in use is counted for its own socket and for every open socket that
   has it as peerupd, and has its page as long as it is counted. *)
RefsExact ==
    \A u \in Socks : LET holders == {s \in Socks : Open(s) /\ upd[sk[s].data].peerupd = u} IN
        /\ upd[u].refcnt >= 0 =>
              upd[u].refcnt = Cardinality(holders) + Cardinality({s \in Socks : Open(s) /\ sk[s].data = u})
        /\ upd[u].refcnt < 0 => holders = {}
        /\ (upd[u].buf # <<>>) = (upd[u].refcnt > 0)
        /\ upd[u].lock = (\E p \in Procs : proc[p].call.pc \in {"rcopy", "wcopy"} /\ proc[p].call.upd = u)

(* Both ends agree: the socket that a connected one has as conn is connected to it,
   and a connected socket that is not still in connect writes into the buffer that
   the other reads.  unix_proto_select follows conn to that buffer. *)
PeersAgree ==
    \A s \in Socks : sk[s].state = "CONNECTED" =>
        LET c == sk[s].conn IN
        /\ Open(c) /\ sk[c].state = "CONNECTED" /\ sk[c].conn = s
        /\ \/ upd[sk[s].data].peerupd = sk[c].data
           \/ \E p \in Procs : proc[p].call.pc = "connect" /\ proc[p].call.sock = s

(* A stream stays in order through wrapping, partial reads and writes, and the page
   faults of the copies: the bytes between tail and head of a buffer are those that
   were written and not yet read. *)
StreamIntact ==
    \A u \in Socks : upd[u].refcnt > 0 =>
        /\ Avail(upd[u]) = upd[u].in - upd[u].out
        /\ \A k \in 0..(Avail(upd[u]) - 1) : upd[u].buf[(upd[u].tail + k) % BUF_SIZE] = upd[u].out + k + 1

(* Nobody sleeps for what is there, or will never come: a reader has no data and a
   peer, a writer no space and a peer, accept no client, socket() no free socket
   (until an inode is wanting); and connect is on the list of a socket that is open,
   from where accept or close tell it, and a signal takes it. *)
SleepersHaveReason ==
    \A p \in Procs : LET r == proc[p].call IN
        /\ Sleeps(p, "read") => Avail(upd[r.upd]) = 0 /\ sk[r.sock].state = "CONNECTED"
        /\ Sleeps(p, "write") => Space(upd[r.upd]) = 0 /\ sk[r.sock].state = "CONNECTED"
        /\ Sleeps(p, "accept") => sk[r.sock].iconn = <<>>
        /\ Sleeps(p, "nosock") /\ ~noinode => \A s \in Socks : sk[s].state # "FREE"
        /\ r.pc = "connect" /\ sk[r.sock].state = "CONNECTING" =>
              sk[r.sock].conn = r.new /\ Open(r.new) /\ Contains(sk[r.new].iconn, r.sock)
=============================================================================
