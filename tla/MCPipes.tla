------------------------------- MODULE MCPipes -------------------------------
(***************************************************************************)
(* Pipes and named pipes for TLC: a behaviour is one of a pipe that is     *)
(* open, or of the opening and closing of a fifo.                          *)
(***************************************************************************)
EXTENDS Integers

CONSTANTS Readers, Writers, Openers, none

VARIABLES view,
          start, len, lock, cells, readers, writers, asleep, signal, io, queue, owed,
          fifo, mode, fsignal, failed

pvars == <<start, len, lock, cells, readers, writers, asleep, signal, io, queue, owed>>
fvars == <<fifo, mode, fsignal, failed>>

P == INSTANCE Pipe WITH PIPE_BUF <- 2, Sizes <- {2, 3}
F == INSTANCE Fifo WITH Procs <- Openers, MaxFail <- 1, signal <- fsignal

Init == view \in {"pipe", "fifo"} /\ P!Init /\ F!Init

\* A pipe whose ends are closed may rest.
Next == \/ view = "pipe" /\ P!Next /\ UNCHANGED <<view, fvars>>
        \/ view = "fifo" /\ F!Next /\ UNCHANGED <<view, pvars>>
        \/ view = "pipe" /\ readers \cup writers = {} /\ UNCHANGED <<view, pvars, fvars>>

\* A process that is not asleep gets to run; no step of it is enabled initially, where
\* the view that does not move stays.
Spec == /\ Init /\ [][Next]_<<view, pvars, fvars>>
        /\ \A p \in Readers \cup Writers : WF_pvars(P!Step(p))
        /\ \A p \in Openers : WF_fvars(F!Step(p))

\* DataIntact of Pipe: readers get the bytes that were written, in order.
DataIntact == P!DataIntact

\* AtomicWrites of Pipe: the bytes of a small write stay together.
AtomicWrites == P!AtomicWrites

\* SleepersHaveReason of Pipe: nobody sleeps in pipe_read or pipe_write who could go on.
SleepersHaveReason == P!SleepersHaveReason

\* CountsExact of Fifo: the counts of readers, writers and openers.
CountsExact == F!CountsExact

\* MeetingKept and PageKept of Fifo, properties of steps: an open that waits loses neither
\* the partner that came meanwhile nor the page.
OpenKept == F!MeetingKept /\ F!PageKept

\* EndSeen of Pipe and OpensEnd of Fifo: whoever waits for the other end gets to know that
\* it is closed, or has been opened.  One opener stands for all: they differ in nothing.
EndSeen == P!EndSeen /\ F!OpensEnd(CHOOSE p \in Openers : TRUE)
=============================================================================
