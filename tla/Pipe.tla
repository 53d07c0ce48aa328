-------------------------------- MODULE Pipe --------------------------------
(***************************************************************************)
(* Reading and writing a pipe, fs/pipe.c.  The pipe is a ring buffer of    *)
(* PIPE_BUF bytes.  PIPE_LEN and PIPE_START move before memcpy_tofs and    *)
(* memcpy_fromfs, which may fault and sleep, so other readers and writers  *)
(* run between the two; PIPE_LOCK is what keeps them out.  A step is the   *)
(* code between two sleep points.                                          *)
(*                                                                         *)
(* A byte is <<w, i, n>>: the i-th of n bytes of a write by w.             *)
(***************************************************************************)
EXTENDS Integers, Sequences, FiniteSets

CONSTANTS Readers, Writers,   \* processes that have the end open; some may have both
          PIPE_BUF,
          Sizes               \* the counts they pass

Procs == Readers \cup Writers
Cells == 0..(PIPE_BUF - 1)

VARIABLES start, len, lock, cells,  \* the pipe
          readers, writers,         \* who PIPE_READERS and PIPE_WRITERS count
          asleep,                   \* sleepers on PIPE_WAIT
          signal,                   \* who has a signal pending
          io,                       \* the call a process is in
          queue,                    \* history: the bytes accepted and not yet taken
          owed                      \* history: the bytes a reader took and is to get

pipe == <<start, len, lock, cells>>
ends == <<readers, writers>>
hist == <<queue, owed>>
vars == <<pipe, ends, asleep, signal, io, hist>>

\* A call: where it is, O_NONBLOCK, count as passed and as left, the space a write
\* waits for, and the first cell and length of the chunk it copies.
User == [pc |-> "user", nb |-> FALSE, size |-> 0, left |-> 0, need |-> 0, from |-> 0, chars |-> 0]
Call(l, nb, n, need) == [User EXCEPT !.pc = l, !.nb = nb, !.size = n, !.left = n, !.need = need]

Init == /\ start = 0 /\ len = 0 /\ lock = 0
        /\ cells = [c \in Cells |-> <<>>]
        /\ readers = Readers /\ writers = Writers
        /\ asleep = {} /\ signal = {}
        /\ io = [p \in Procs |-> User]
        /\ queue = <<>> /\ owed = [p \in Procs |-> <<>>]

Least(a, b, c) == IF a <= b /\ a <= c THEN a ELSE IF b <= c THEN b ELSE c

\* PIPE_FREE, PIPE_END, PIPE_MAX_RCHUNK, PIPE_MAX_WCHUNK
Free == PIPE_BUF - len
End == (start + len) % PIPE_BUF
MaxRChunk == PIPE_BUF - start
MaxWChunk == PIPE_BUF - End

\* The call returns to user mode, where a pending signal is taken.
Return(p) == io' = [io EXCEPT ![p] = User] /\ signal' = signal \ {p}

\* The call r of p sleeps on PIPE_WAIT at l.
Sleep(p, r, l) == /\ io' = [io EXCEPT ![p] = [r EXCEPT !.pc = l]]
                  /\ asleep' = asleep \cup {p}
                  /\ UNCHANGED signal

-----------------------------------------------------------------------------
(* pipe_read                                                               *)

\* Seeded slip: the lock is not looked at.
MustWaitEmpty == len = 0

\* PIPE_EMPTY || PIPE_LOCK
MustWait == len = 0 \/ lock > 0

\* A round of the copy loop of the call r, up to memcpy_tofs.
TakeChunk(p, r) ==
    LET c == Least(MaxRChunk, r.left, len) IN
    /\ io' = [io EXCEPT ![p] = [r EXCEPT !.pc = "rcopy", !.left = @ - c, !.from = start, !.chars = c]]
    /\ start' = (start + c) % PIPE_BUF
    /\ len' = len - c
    /\ queue' = SubSeq(queue, c + 1, Len(queue))
    /\ owed' = [owed EXCEPT ![p] = SubSeq(queue, 1, c)]
    /\ UNCHANGED <<cells, ends, signal>>

\* The tests of pipe_read, at the call and after every sleep.
ReadTry(p, r) ==
    \/ /\ MustWait
       /\ \/ /\ r.nb \/ (len = 0 /\ writers = {}) \/ p \in signal
             /\ Return(p)
             /\ UNCHANGED asleep
          \/ /\ ~(r.nb \/ (len = 0 /\ writers = {}) \/ p \in signal)
             /\ Sleep(p, r, "rsleep")
       /\ UNCHANGED <<pipe, ends, hist>>
    \/ /\ ~MustWait
       /\ lock' = lock + 1
       /\ TakeChunk(p, r)
       /\ UNCHANGED asleep

pipe_read(p, n, nb) == io[p].pc = "user" /\ p \in readers /\ ReadTry(p, Call("user", nb, n, 0))

read_retry(p) == io[p].pc = "rsleep" /\ p \notin asleep /\ ReadTry(p, io[p])

\* memcpy_tofs is done: the next chunk, or PIPE_LOCK--, wake_up_interruptible, return.
read_copied(p) ==
    /\ io[p].pc = "rcopy"
    /\ \/ /\ io[p].left > 0 /\ len > 0
          /\ TakeChunk(p, io[p])
          /\ UNCHANGED <<lock, asleep>>
       \/ /\ io[p].left = 0 \/ len = 0
          /\ lock' = lock - 1
          /\ asleep' = {}
          /\ Return(p)
          /\ owed' = [owed EXCEPT ![p] = <<>>]
          /\ UNCHANGED <<start, len, cells, ends, queue>>

-----------------------------------------------------------------------------
(* pipe_write                                                              *)

\* Bytes i+1 .. i+c of the n that p writes.
Bytes(p, n, i, c) == [k \in 1..c |-> <<p, i + k, n>>]

\* A round of the copy loop of the call r, up to memcpy_fromfs.
PutChunk(p, r) ==
    LET c == Least(MaxWChunk, r.left, Free) IN
    /\ io' = [io EXCEPT ![p] = [r EXCEPT !.pc = "wcopy", !.left = @ - c, !.from = End, !.chars = c]]
    /\ len' = len + c
    /\ queue' = queue \o Bytes(p, r.size, r.size - r.left, c)
    /\ UNCHANGED <<start, ends, signal, owed>>

\* The inner while loop of pipe_write, at the call and after every sleep.
WriteTry(p, r) ==
    \/ /\ Free < r.need \/ lock > 0
       /\ \/ /\ readers = {} \/ p \in signal \/ r.nb
             /\ Return(p)
             /\ UNCHANGED asleep
          \/ /\ ~(readers = {} \/ p \in signal \/ r.nb)
             /\ Sleep(p, r, "wsleep")
       /\ UNCHANGED <<pipe, ends, hist>>
    \/ /\ Free >= r.need /\ lock = 0
       /\ lock' = lock + 1
       /\ PutChunk(p, r)
       /\ UNCHANGED <<cells, asleep>>

\* Seeded slip: a small write does not wait for room for all of it.
NeedAny(n) == 1

\* "if count <= PIPE_BUF, we have to make it atomic"
Need(n) == IF n <= PIPE_BUF THEN n ELSE 1

pipe_write(p, n, nb) ==
    /\ io[p].pc = "user" /\ p \in writers
    /\ \/ /\ readers = {}      \* SIGPIPE, -EPIPE
          /\ Return(p)
          /\ UNCHANGED <<pipe, ends, asleep, hist>>
       \/ /\ readers # {}
          /\ WriteTry(p, Call("user", nb, n, Need(n)))

write_retry(p) == io[p].pc = "wsleep" /\ p \notin asleep /\ WriteTry(p, io[p])

\* The cells after memcpy_fromfs of the chunk of the call r.
Filled(p, r) == [c \in Cells |->
                    IF c \in r.from..(r.from + r.chars - 1)
                      THEN <<p, r.size - r.left - r.chars + (c - r.from) + 1, r.size>>
                      ELSE cells[c]]

\* Seeded slip: the pipe is unlocked and nobody is told.
AwakeNone(s) == asleep \cup s

\* wake_up_interruptible(&PIPE_WAIT), and then the caller sleeps again, or not.
Awake(s) == s

\* memcpy_fromfs is done: the next chunk, or PIPE_LOCK--, wake_up_interruptible, and
\* then the call is complete, or waits for any free space (there is none now).
write_copied(p) ==
    LET r == [io[p] EXCEPT !.need = 1] IN
    /\ io[p].pc = "wcopy"
    /\ cells' = Filled(p, r)
    /\ \/ /\ r.left > 0 /\ Free > 0
          /\ PutChunk(p, r)
          /\ UNCHANGED <<lock, asleep>>
       \/ /\ r.left = 0 \/ Free = 0
          /\ lock' = lock - 1
          /\ \/ /\ r.left = 0 \/ readers = {} \/ p \in signal \/ r.nb
                /\ Return(p)
                /\ asleep' = Awake({})
             \/ /\ ~(r.left = 0 \/ readers = {} \/ p \in signal \/ r.nb)
                /\ io' = [io EXCEPT ![p] = [r EXCEPT !.pc = "wsleep"]]
                /\ asleep' = Awake({p})
                /\ UNCHANGED signal
          /\ UNCHANGED <<start, len, ends, hist>>

-----------------------------------------------------------------------------
\* Seeded slip: the counts go down and the other end is not told.
closeQuietly(p) ==
    /\ io[p].pc = "user" /\ p \in readers \cup writers
    /\ readers' = readers \ {p} /\ writers' = writers \ {p}
    /\ UNCHANGED <<pipe, asleep, signal, io, hist>>

\* pipe_read_release, pipe_write_release, pipe_rdwr_release
close(p) ==
    /\ io[p].pc = "user" /\ p \in readers \cup writers
    /\ readers' = readers \ {p} /\ writers' = writers \ {p}
    /\ asleep' = {}
    /\ UNCHANGED <<pipe, signal, io, hist>>

\* A signal is posted, and schedule() ends an interruptible sleep for it.
post_signal(p) ==
    /\ io[p].pc # "user"
    /\ signal' = signal \cup {p}
    /\ asleep' = asleep \ {p}
    /\ UNCHANGED <<pipe, ends, io, hist>>

Step(p) == read_retry(p) \/ read_copied(p) \/ write_retry(p) \/ write_copied(p)

Next == \E p \in Procs :
            \/ Step(p) \/ close(p) \/ post_signal(p)
            \/ \E n \in Sizes, nb \in BOOLEAN : pipe_read(p, n, nb) \/ pipe_write(p, n, nb)

Spec == Init /\ [][Next]_vars

\* A process that is not asleep gets to run, and page faults end.
FairSpec == Spec /\ \A p \in Procs : WF_vars(Step(p))

-----------------------------------------------------------------------------
\* A byte nobody has copied in yet.
Pending(c) == \E p \in Procs : io[p].pc = "wcopy" /\ c \in io[p].from..(io[p].from + io[p].chars - 1)

\* No byte is lost, duplicated, reordered or overwritten: the cells from start on hold
\* the accepted bytes in order, and a reader that faults in memcpy_tofs still finds the
\* bytes it took, although start and len no longer cover them.
DataIntact ==
    /\ len = Len(queue)
    /\ \A i \in 1..len : LET c == (start + i - 1) % PIPE_BUF IN ~Pending(c) => cells[c] = queue[i]
    /\ \A p \in Procs : io[p].pc = "rcopy" =>
          \A i \in 1..io[p].chars : cells[io[p].from + i - 1] = owed[p][i]

\* A write of at most PIPE_BUF bytes is not interleaved with others: its next byte
\* follows in the pipe, unless its writer is still copying.
AtomicWrites ==
    \A i \in 1..Len(queue) :
        LET w == queue[i][1]  k == queue[i][2]  n == queue[i][3] IN
        n <= PIPE_BUF /\ k < n =>
            IF i < Len(queue) THEN queue[i + 1] = <<w, k + 1, n>> ELSE io[w].pc = "wcopy"

\* Nobody sleeps without a reason that a later unlock or close takes away: a reader
\* only while the pipe is locked, or empty with writers left; a writer only while it is
\* locked, or too full with readers left.
SleepersHaveReason ==
    \A p \in asleep :
        \/ io[p].pc = "rsleep" /\ (lock > 0 \/ (len = 0 /\ writers # {}))
        \/ io[p].pc = "wsleep" /\ (lock > 0 \/ Free < io[p].need) /\ readers # {}

\* Whoever waits when the last process at the other end closes gets to know.
EndSeen == \A p \in Readers \cup Writers :
              \/ io[p].pc = "rsleep" /\ writers = {}
              \/ io[p].pc = "wsleep" /\ readers = {}
              ~> io[p].pc \notin {"rsleep", "wsleep"}
=============================================================================
