------------------------------- MODULE Select -------------------------------
(***************************************************************************)
(* do_select, fs/select.c, on pipes (pipe_select, fs/pipe.c).  A process   *)
(* asks about several files at once: it is put on the wait queue of each   *)
(* that is not ready, with entries in one page that it frees when it       *)
(* returns.  The pipes are used by others: a read or write changes the     *)
(* size first, copies, which may sleep, and then wakes PIPE_WAIT.          *)
(***************************************************************************)
EXTENDS Integers, Sequences, FiniteSets, SequencesExt

CONSTANTS Procs,
          Files,              \* 1..n, in the order of the descriptors
          MAX_ENTRIES         \* __MAX_SELECT_TABLE_ENTRIES

Flags == {"in", "out", "ex"}
Asked == Flags \X Files

VARIABLES pipe,               \* PIPE_SIZE (of at most 1), whether somebody copies, and the ends
          queue,              \* the entries on wait queues: of whom, which of its table, the address
          call                \* the do_select of a process: what it asks, p->nr, current->timeout

vars == <<pipe, queue, call>>

User == [pc |-> "user", sets |-> {}, nr |-> 0, timeout |-> "zero", signal |-> FALSE]

Init == /\ pipe = [f \in Files |-> [size |-> 0, busy |-> FALSE, readers |-> 1, writers |-> 1]]
        /\ queue = {}
        /\ call = [p \in Procs |-> User]

-----------------------------------------------------------------------------
\* pipe_select: whether a file is ready, and the queue for those who wait until it is.
Ready(f, flag) ==
    CASE flag = "in" -> pipe[f].size > 0 \/ pipe[f].writers = 0
    []   flag = "out" -> pipe[f].size < 1 \/ pipe[f].readers = 0
    []   OTHER -> pipe[f].readers = 0 \/ pipe[f].writers = 0

Address(f, flag) == <<IF flag = "ex" THEN "i_wait" ELSE "PIPE_WAIT", f>>

\* The descriptors in order, and for each the sets in their order.
Scan(sets) ==
    SelectSeq([i \in 1..(3 * Cardinality(Files)) |-> <<<<"in", "out", "ex">>[((i - 1) % 3) + 1], ((i - 1) \div 3) + 1>>],
              LAMBDA a : a \in sets)


\* check() and select_wait(): a file that is ready counts, and then there is no more need
\* to queue; one that is not gets an entry, if the table has room.
check(p, acc, a) ==
    IF Ready(a[2], a[1]) THEN [acc EXCEPT !.count = @ + 1, !.wait = FALSE]
    ELSE IF acc.wait /\ acc.nr < MAX_ENTRIES
    THEN [acc EXCEPT !.nr = @ + 1, !.entries = @ \cup {<<p, acc.nr, Address(a[2], a[1])>>}]
    ELSE acc

\* Seeded slip: one entry stays behind.
FreeLater(p, nr, q) == {e \in q : e[1] # p \/ e[2] >= nr - 1}

free_wait(p, nr, q) == {e \in q : e[1] # p \/ e[2] >= nr}

\* From repeat on: p sleeps, or takes its entries off the queues and returns.
Repeat(p, c, wait) ==
    LET r == FoldLeft(LAMBDA acc, a : check(p, acc, a), [count |-> 0, wait |-> wait, nr |-> c.nr, entries |-> {}], Scan(c.sets))
    IN  IF r.count = 0 /\ c.timeout # "zero" /\ ~c.signal
        THEN /\ call' = [call EXCEPT ![p] = [c EXCEPT !.pc = "asleep", !.nr = r.nr]]
             /\ queue' = queue \cup r.entries
        ELSE /\ call' = [call EXCEPT ![p] = User]
             /\ queue' = free_wait(p, r.nr, queue \cup r.entries)

do_select(p) ==
    /\ call[p].pc = "user"
    /\ \E sets \in SUBSET Asked, t \in {"zero", "finite", "never"} :
        /\ sets # {}
        /\ Repeat(p, [User EXCEPT !.sets = sets, !.timeout = t], TRUE)
    /\ UNCHANGED pipe

select_woken(p) == call[p].pc = "awake" /\ Repeat(p, call[p], FALSE) /\ UNCHANGED pipe

Awake(c) == IF c.pc = "asleep" THEN [c EXCEPT !.pc = "awake"] ELSE c

\* schedule() ends the sleep: the time is over, or there is a signal.
timed_out(p) == /\ call[p].timeout = "finite" /\ call[p].pc = "asleep"
                /\ call' = [call EXCEPT ![p] = [Awake(@) EXCEPT !.timeout = "zero"]]
                /\ UNCHANGED <<pipe, queue>>

signalled(p) == /\ call[p].pc = "asleep"
                /\ call' = [call EXCEPT ![p] = [Awake(@) EXCEPT !.signal = TRUE]]
                /\ UNCHANGED <<pipe, queue>>

-----------------------------------------------------------------------------
\* wake_up_interruptible(&PIPE_WAIT)
Wake(f) == call' = [p \in Procs |-> IF \E e \in queue : e[1] = p /\ e[3] = <<"PIPE_WAIT", f>> THEN Awake(call[p]) ELSE call[p]]

\* pipe_read and pipe_write: the size changes, then the data are copied.
pipe_rw(f) == /\ ~pipe[f].busy
              /\ IF pipe[f].size > 0 THEN pipe[f].readers > 0 ELSE pipe[f].writers > 0 /\ pipe[f].readers > 0
              /\ pipe' = [pipe EXCEPT ![f].size = 1 - @, ![f].busy = TRUE]
              /\ UNCHANGED <<queue, call>>

pipe_copied(f) == /\ pipe[f].busy
                  /\ pipe' = [pipe EXCEPT ![f].busy = FALSE]
                  /\ Wake(f) /\ UNCHANGED queue

\* The last process at an end closes it.
pipe_release(f) == /\ ~pipe[f].busy
                   /\ \/ pipe[f].readers > 0 /\ pipe' = [pipe EXCEPT ![f].readers = 0]
                      \/ pipe[f].writers > 0 /\ pipe' = [pipe EXCEPT ![f].writers = 0]
                   /\ Wake(f) /\ UNCHANGED queue

Next == \/ \E p \in Procs : do_select(p) \/ select_woken(p) \/ timed_out(p) \/ signalled(p)
        \/ \E f \in Files : pipe_rw(f) \/ pipe_copied(f) \/ pipe_release(f)

Spec == Init /\ [][Next]_vars

-----------------------------------------------------------------------------

(* The wait queues hold an entry for every one in the table of a process that
   is in select, and none of a process that has returned and freed the page. *)
NoEntryLeft == \A p \in Procs : {e[2] : e \in {q \in queue : q[1] = p}} = 0..(call[p].nr - 1)
=============================================================================
