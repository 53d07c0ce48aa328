-------------------------------- MODULE Fifo --------------------------------
(***************************************************************************)
(* Opening and closing a named pipe, fs/fifo.c.  A blocking open for one   *)
(* direction waits until the other end is opened, and whoever opens the    *)
(* other end waits until all those openers have noticed.  The first open   *)
(* allocates the page, and may sleep doing so.                             *)
(*                                                                         *)
(* The counts of the inode and the sleepers are one record, because an     *)
(* open runs through several stages of fifo_open before it sleeps: each    *)
(* stage is a function of the record.                                      *)
(***************************************************************************)
EXTENDS Naturals, FiniteSets

CONSTANTS Procs,
          MaxFail,       \* how often __get_free_page fails
          none           \* no page

VARIABLES fifo,          \* the inode, its sleepers, and where each open is
          mode,          \* f_mode of each process
          signal,        \* who has a signal pending
          failed         \* how often __get_free_page has failed

vars == <<fifo, mode, signal, failed>>

\* init_fifo
Init == /\ fifo = [readers |-> 0, writers |-> 0, rd_openers |-> 0, wr_openers |-> 0,
                   base |-> none, asleep |-> {}, pc |-> [p \in Procs |-> "none"]]
        /\ mode = [p \in Procs |-> "r"]
        /\ signal = {}
        /\ failed = 0

-----------------------------------------------------------------------------
\* Seeded slip: no wake-up when the last opener of a kind is done.
NotWoken(s, when) == s

\* if (when) wake_up_interruptible(&PIPE_WAIT(*inode))
Woken(s, when) == IF when THEN [s EXCEPT !.asleep = {}] ELSE s

At(s, p, l) == [s EXCEPT !.pc[p] = l]

\* interruptible_sleep_on, which a pending signal ends at once
Sleep(s, p, l) == [s EXCEPT !.pc[p] = l, !.asleep = IF p \in signal THEN @ ELSE @ \cup {p}]

AddReader(s) == Woken([s EXCEPT !.readers = @ + 1], s.readers = 0)
AddWriter(s) == Woken([s EXCEPT !.writers = @ + 1], s.writers = 0)
DropReader(s) == Woken([s EXCEPT !.readers = @ - 1], s.readers = 1)
DropWriter(s) == Woken([s EXCEPT !.writers = @ - 1], s.writers = 1)

\* iput: the last user of the inode gives its page back
Put(s, p) == [s EXCEPT !.pc[p] = "none", !.asleep = {},
                       !.base = IF \A q \in Procs \ {p} : s.pc[q] = "none" THEN none ELSE @]

\* if (PIPE_BASE(*inode)) return 0; page = __get_free_page(GFP_KERNEL)
Page(s, p) == At(s, p, IF s.base # none THEN "open" ELSE "alloc")

\* O_RDONLY: while (PIPE_WR_OPENERS) sleep; drop the count again after a signal
RdMeet(s, p, l) ==
    IF s.wr_openers > 0 THEN Sleep(s, p, l)
    ELSE IF l = "rfail" THEN Put(DropReader(s), p) ELSE Page(s, p)

\* while (!PIPE_WRITERS) sleep
RdWait(s, p) ==
    IF s.writers = 0 /\ p \notin signal THEN Sleep(s, p, "rwait")
    ELSE RdMeet(Woken([s EXCEPT !.rd_openers = @ - 1], s.rd_openers = 1), p,
                IF s.writers = 0 THEN "rfail" ELSE "rmeet")

\* Seeded slips: a writer does not wait for the readers to notice it; an interrupted
\* open stays counted.
WrMeetNoWait(s, p, l) == IF l = "wfail" THEN Put(DropWriter(s), p) ELSE Page(s, p)

WrMeetKept(s, p, l) == IF l = "wfail" THEN Put(s, p) ELSE Page(s, p)

\* O_WRONLY, likewise
WrMeet(s, p, l) ==
    IF s.rd_openers > 0 THEN Sleep(s, p, l)
    ELSE IF l = "wfail" THEN Put(DropWriter(s), p) ELSE Page(s, p)

WrWait(s, p) ==
    IF s.readers = 0 /\ p \notin signal THEN Sleep(s, p, "wwait")
    ELSE WrMeet(Woken([s EXCEPT !.wr_openers = @ - 1], s.wr_openers = 1), p,
                IF s.readers = 0 THEN "wfail" ELSE "wmeet")

\* O_RDWR
XMeetRd(s, p) == IF s.rd_openers > 0 THEN Sleep(s, p, "xmeetr") ELSE Page(s, p)
XMeetWr(s, p) == IF s.wr_openers > 0 THEN Sleep(s, p, "xmeetw") ELSE XMeetRd(AddWriter(s), p)

-----------------------------------------------------------------------------
open_rdonly(p, nb) ==
    /\ fifo.pc[p] = "none"
    /\ fifo' = LET s == AddReader(fifo) IN
               IF ~nb /\ s.writers = 0 THEN RdWait([s EXCEPT !.rd_openers = @ + 1], p)
                                       ELSE RdMeet(s, p, "rmeet")
    /\ mode' = [mode EXCEPT ![p] = "r"]
    /\ UNCHANGED <<signal, failed>>

\* A nonblocking open without readers is -ENXIO and changes nothing.
open_wronly(p, nb) ==
    /\ fifo.pc[p] = "none"
    /\ ~(nb /\ fifo.readers = 0)
    /\ fifo' = LET s == AddWriter(fifo) IN
               IF s.readers = 0 THEN WrWait([s EXCEPT !.wr_openers = @ + 1], p)
                                ELSE WrMeet(s, p, "wmeet")
    /\ mode' = [mode EXCEPT ![p] = "w"]
    /\ UNCHANGED <<signal, failed>>

open_rdwr(p) ==
    /\ fifo.pc[p] = "none"
    /\ fifo' = XMeetWr(AddReader(fifo), p)
    /\ mode' = [mode EXCEPT ![p] = "rw"]
    /\ UNCHANGED <<signal, failed>>

\* The open of p after a sleep, up to the next or to its end.
Resumed(p) == CASE fifo.pc[p] = "rwait" -> RdWait(fifo, p)
                [] fifo.pc[p] \in {"rmeet", "rfail"} -> RdMeet(fifo, p, fifo.pc[p])
                [] fifo.pc[p] = "wwait" -> WrWait(fifo, p)
                [] fifo.pc[p] \in {"wmeet", "wfail"} -> WrMeet(fifo, p, fifo.pc[p])
                [] fifo.pc[p] = "xmeetw" -> XMeetWr(fifo, p)
                [] fifo.pc[p] = "xmeetr" -> XMeetRd(fifo, p)

\* A signal is taken once the call has returned.
Taken(p) == IF fifo'.pc[p] \in {"none", "open"} THEN signal \ {p} ELSE signal

resume(p) ==
    /\ fifo.pc[p] \notin {"none", "open", "alloc"} /\ p \notin fifo.asleep
    /\ fifo' = Resumed(p)
    /\ signal' = Taken(p)
    /\ UNCHANGED <<mode, failed>>

\* Seeded slip: PIPE_BASE is not looked at again after the allocation.
BaseAlways(s, p) == [s EXCEPT !.base = p, !.pc[p] = "open"]

\* __get_free_page has returned a page; another opener may have been quicker.
Base(s, p) == [s EXCEPT !.base = IF @ = none THEN p ELSE @, !.pc[p] = "open"]

page_ready(p) ==
    /\ fifo.pc[p] = "alloc"
    /\ fifo' = Base(fifo, p)
    /\ signal' = Taken(p)
    /\ UNCHANGED <<mode, failed>>

\* It has returned none: 0 if another opener has set PIPE_BASE, or else -ENOMEM, and
\* do_open puts the inode without calling release.
page_failed(p) ==
    /\ fifo.pc[p] = "alloc" /\ failed < MaxFail
    /\ fifo' = IF fifo.base # none THEN At(fifo, p, "open") ELSE Put(fifo, p)
    /\ failed' = failed + 1
    /\ signal' = Taken(p)
    /\ UNCHANGED mode

\* pipe_read_release, pipe_write_release, pipe_rdwr_release, and iput
close(p) ==
    /\ fifo.pc[p] = "open"
    /\ fifo' = LET s == [fifo EXCEPT !.readers = IF mode[p] # "w" THEN @ - 1 ELSE @,
                                     !.writers = IF mode[p] # "r" THEN @ - 1 ELSE @]
               IN Put(s, p)
    /\ UNCHANGED <<mode, signal, failed>>

post_signal(p) ==
    /\ fifo.pc[p] \notin {"none", "open"} /\ p \notin signal
    /\ signal' = signal \cup {p}
    /\ fifo' = [fifo EXCEPT !.asleep = @ \ {p}]
    /\ UNCHANGED <<mode, failed>>

Step(p) == resume(p) \/ page_ready(p)

Next == \E p \in Procs :
            \/ Step(p) \/ page_failed(p) \/ close(p) \/ post_signal(p) \/ open_rdwr(p)
            \/ \E nb \in BOOLEAN : open_rdonly(p, nb) \/ open_wronly(p, nb)

Spec == Init /\ [][Next]_vars

\* A process that is not asleep gets to run, and the allocation of a page ends.
FairSpec == Spec /\ \A p \in Procs : WF_vars(Step(p))

-----------------------------------------------------------------------------
InPc(ls) == {p \in Procs : fifo.pc[p] \in ls}
Reading == {p \in Procs : \/ fifo.pc[p] \in {"rwait", "rmeet", "rfail", "xmeetw", "xmeetr"}
                          \/ fifo.pc[p] \in {"alloc", "open"} /\ mode[p] # "w"}
Writing == {p \in Procs : \/ fifo.pc[p] \in {"wwait", "wmeet", "wfail", "xmeetr"}
                          \/ fifo.pc[p] \in {"alloc", "open"} /\ mode[p] # "r"}

\* PIPE_READERS, PIPE_WRITERS and the two opener counts are the numbers of the processes
\* that have the fifo open, or are opening it, for reading and for writing.
CountsKept == /\ fifo.readers = Cardinality(Reading)
              /\ fifo.writers = Cardinality(Writing)
              /\ fifo.rd_openers = Cardinality(InPc({"rwait"}))
              /\ fifo.wr_openers = Cardinality(InPc({"wwait"}))

\* The counts of fifo_open are exact through every order of opens, signals and closes
\* until an open has failed for want of a page, and never too small after that.
CountsExact == /\ failed = 0 => CountsKept
               /\ fifo.readers >= Cardinality(Reading)
               /\ fifo.writers >= Cardinality(Writing)

\* The rendezvous: once a writer has come, the writers do not all leave again before
\* every reader that was waiting for one has seen it; and the other way round.
MeetingKept ==
    [][/\ fifo.writers > 0 /\ fifo.writers' = 0 => InPc({"rwait"}) = {}
       /\ fifo.readers > 0 /\ fifo.readers' = 0 => InPc({"wwait"}) = {}]_vars

\* A process that has the fifo open has its page, and the page is not replaced (its
\* contents and PIPE_LOCK reset) under it.
PageKept ==
    [][\A p \in Procs : fifo.pc[p] = "open" =>
          /\ fifo.base # none
          /\ fifo.pc'[p] = "open" => fifo'.base = fifo.base]_vars

\* An open is not held up: a blocking one ends when there is a process at the other
\* end, and the waits for other openers, and with them an O_RDWR open, always end.
OpensEnd(p) ==
    \/ fifo.pc[p] = "rwait" /\ fifo.writers > 0
    \/ fifo.pc[p] = "wwait" /\ fifo.readers > 0
    \/ fifo.pc[p] \in {"rmeet", "rfail", "wmeet", "wfail", "xmeetw", "xmeetr", "alloc"}
    ~> fifo.pc[p] \in {"open", "none"}
=============================================================================
