-------------------------------- MODULE MCIpc --------------------------------
(***************************************************************************)
(* System V IPC for TLC.  The three facilities share no state, so that a   *)
(* behaviour is one of a single facility, the one view names; the others   *)
(* would only multiply the states.  Messages and semaphores come in two    *)
(* sizes: two messages and three processes or the other way round, one     *)
(* array of two semaphores or two arrays of one, one after the other.      *)
(***************************************************************************)
EXTENDS Integers, TLC

CONSTANTS NULL, NOID, Views,
          Procs, SHMMNI, SHMALL, Keys,
          SemProcs, SEMVMX

VARIABLES view,
          segs, max_shmid, shm_seq, shm_tot, att,
          slot, seq, que, block, msgbytes, msghdrs,
          arr, semun,
          asleep, proc

shmvars == <<segs, max_shmid, shm_seq, shm_tot, att>>
msgvars == <<que, block, msgbytes, msghdrs>>
semvars == <<arr, semun>>
vars == <<view, shmvars, slot, seq, msgvars, semvars, asleep, proc>>

Shm == INSTANCE Shm WITH Started <- Procs, Sizes <- {1}, MaxSeq <- 2

\* Receivers of every kind; the second has room for no message.
Want(t, x, n) == [typ |-> t, except |-> x, msgsz |-> n, noerror |-> FALSE]
Wanted == {Want(0, FALSE, 1), Want(1, TRUE, 0), Want(2, FALSE, 1), Want(-1, FALSE, 1)}

Msg == INSTANCE Msg WITH Types <- {1, 2}, Sizes <- {1}, Blocks <- 1..2, MSGMNB <- 2, MaxSeq <- 1
Msg2 == INSTANCE Msg WITH Procs <- SemProcs, Types <- {1, 2}, Sizes <- {1},
                          Blocks <- 1..3, MSGMNB <- 3, MaxSeq <- 1

\* Down with undo, up, wait for zero and lock, down of two; and calls on one semaphore.
Op(n, d, u) == [num |-> n, op |-> d, undo |-> u]
Calls2 == {<<Op(1, -1, TRUE)>>, <<Op(1, 1, FALSE)>>, <<Op(2, 0, FALSE), Op(2, 1, TRUE)>>,
           <<Op(1, -1, FALSE), Op(2, -1, TRUE)>>}
Calls1 == {<<Op(1, -1, TRUE)>>, <<Op(1, 1, FALSE)>>, <<Op(1, 0, FALSE)>>}

Sem2 == INSTANCE Sem WITH Procs <- SemProcs, Sems <- {1, 2}, Calls <- Calls2, Values <- {1}, MaxSeq <- 0
Sem1 == INSTANCE Sem WITH Procs <- SemProcs, Sems <- {1}, Calls <- Calls1, Values <- {1}, MaxSeq <- 1

NoShm == segs = NULL /\ max_shmid = NULL /\ shm_seq = NULL /\ shm_tot = NULL /\ att = NULL
NoMsg == que = NULL /\ block = NULL /\ msgbytes = NULL /\ msghdrs = NULL
NoSem == arr = NULL /\ semun = NULL

Init == /\ view \in Views
        /\ \/ view = "shm" /\ Shm!Init /\ NoMsg /\ NoSem /\ slot = NULL /\ seq = NULL
           \/ view = "msg" /\ Msg!Init /\ NoShm /\ NoSem
           \/ view = "msg2" /\ Msg2!Init /\ NoShm /\ NoSem
           \/ view = "sem1" /\ Sem1!Init /\ NoShm /\ NoMsg
           \/ view = "sem2" /\ Sem2!Init /\ NoShm /\ NoMsg

Next == \/ view = "shm" /\ Shm!Next /\ UNCHANGED <<view, slot, seq, msgvars, semvars>>
        \/ view = "msg" /\ Msg!Next /\ UNCHANGED <<view, shmvars, semvars>>
        \/ view = "msg2" /\ Msg2!Next /\ UNCHANGED <<view, shmvars, semvars>>
        \/ view = "sem1" /\ Sem1!Next /\ UNCHANGED <<view, shmvars, msgvars>>
        \/ view = "sem2" /\ Sem2!Next /\ UNCHANGED <<view, shmvars, msgvars>>

Spec == Init /\ [][Next]_vars

\* Processes differ in nothing.
Symmetry == Permutations(Procs) \cup Permutations(SemProcs)

-----------------------------------------------------------------------------
\* AttachedAlive and NoneLeftOver of Shm: no segment goes away, nor changes hands, under an
\* attachment; shm_nattch is exact; and a segment marked SHM_DEST goes with its last one.
AttachedAlive == view = "shm" => Shm!AttachedAlive /\ Shm!NoneLeftOver

\* OnlyRemovedGone of Shm, a property of steps: a segment goes only after IPC_RMID.
OnlyRemovedGoes == [][view = "shm" => Shm!OnlyRemovedGone]_vars

\* ListsExact of Msg: the list of messages, its end and the counts agree.
ListsExact == (view = "msg" => Msg!ListsExact) /\ (view = "msg2" => Msg2!ListsExact)

\* UndoConserved and UndoListed of Sem: no SEM_UNDO adjustment is lost or made twice, and
\* sem_exit finds its undo requests on the list of their array.
UndoConserved == (view = "sem2" => Sem2!UndoConserved) /\ (view = "sem1" => Sem1!UndoListed)

\* SleepersHaveReason of all three: nobody sleeps in findkey, msgsnd, msgrcv, semop or
\* sem_exit once what it waits for is there, or the object it waits on is being removed;
\* and (FreedUnused) IPC_RMID frees no object in whose wait queues a process is.
SleepersHaveReason == /\ view = "shm" => Shm!SleepersHaveReason
                      /\ view = "msg" => Msg!SleepersHaveReason /\ Msg!FreedUnused
                      /\ view = "msg2" => Msg2!SleepersHaveReason
                      /\ view = "sem1" => Sem1!SleepersHaveReason /\ Sem1!FreedUnused
                      /\ view = "sem2" => Sem2!SleepersHaveReason
=============================================================================
