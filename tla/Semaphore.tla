----------------------------- MODULE Semaphore -----------------------------
(***************************************************************************)
(* The kernel semaphores (down and up of include/linux/sched.h, __down of  *)
(* kernel/sched.c) as fs/namei.c uses them: i_sem, a MUTEX, serialises the *)
(* operations that change a directory.  The holder may sleep for I/O while *)
(* it has the semaphore.  The queue is the set of WaitQueue.  A step is    *)
(* the code between two sleep points; between them only interrupts come,   *)
(* and cpu is the process in the middle of such code, if there is one.     *)
(***************************************************************************)
EXTENDS Naturals

CONSTANTS Procs, None

ASSUME SemaphoreAssumption == None \notin Procs

VARIABLES count, wait,   \* the semaphore
          state,         \* task states
          pc, cpu

vars == <<count, wait, state, pc, cpu>>

Init == /\ count = 1 /\ wait = {}
        /\ state = [p \in Procs |-> "RUNNING"]
        /\ pc = [p \in Procs |-> "user"]
        /\ cpu = None

\* p runs on from l to l2 without giving up the processor, or gives it up at l2.
Goes(p, l, l2) == cpu = p /\ pc[p] = l /\ pc' = [pc EXCEPT ![p] = l2] /\ UNCHANGED cpu
Stops(p, l, l2) == cpu = p /\ pc[p] = l /\ pc' = [pc EXCEPT ![p] = l2] /\ cpu' = None
Starts(p, l, l2) == /\ cpu = None /\ pc[p] = l /\ state[p] = "RUNNING"
                    /\ pc' = [pc EXCEPT ![p] = l2] /\ cpu' = p

Becomes(p, s) == state' = [state EXCEPT ![p] = s]

\* down(): if (sem->count <= 0) __down(sem);  __down adds itself to the queue.
down(p) == /\ Starts(p, "user", IF count = 0 THEN "queued" ELSE "take")
           /\ wait' = IF count = 0 THEN wait \cup {p} ELSE wait
           /\ UNCHANGED <<count, state>>

\* current->state = TASK_UNINTERRUPTIBLE, before the test of the while loop.
down_set(p) == Goes(p, "queued", "test") /\ Becomes(p, "UNINTERRUPTIBLE") /\ UNCHANGED <<count, wait>>

down_sleep(p) == count = 0 /\ Stops(p, "test", "asleep") /\ UNCHANGED <<count, wait, state>>

\* Seeded slip: a sleeper that is woken takes it for granted that it is its turn.
down_wokenBlindly(p) == Starts(p, "asleep", "take") /\ wait' = wait \ {p} /\ UNCHANGED <<count, state>>

\* schedule() returns: the state is set again and the loop goes on.
down_woken(p) == Starts(p, "asleep", "test") /\ Becomes(p, "UNINTERRUPTIBLE") /\ UNCHANGED <<count, wait>>

down_leave(p) == /\ count > 0
                 /\ Goes(p, "test", "take")
                 /\ Becomes(p, "RUNNING")
                 /\ wait' = wait \ {p}
                 /\ UNCHANGED count

take(p) == Goes(p, "take", "hold") /\ count' = count - 1 /\ UNCHANGED <<wait, state>>

\* The holder waits for a block of the directory; an interrupt ends the wait.
hold_sleep(p) == Stops(p, "hold", "io") /\ Becomes(p, "UNINTERRUPTIBLE") /\ UNCHANGED <<count, wait>>
io_done(p) == pc[p] = "io" /\ state[p] # "RUNNING" /\ Becomes(p, "RUNNING") /\ UNCHANGED <<count, wait, pc, cpu>>
hold_woken(p) == Starts(p, "io", "hold") /\ UNCHANGED <<count, wait, state>>

\* Seeded slip: nobody is woken.
WokenNone == state

\* wake_up(&sem->wait) makes all of the queue runnable.
Woken == [q \in Procs |-> IF q \in wait THEN "RUNNING" ELSE state[q]]

\* up(): sem->count++, wake_up; back to user mode.
up(p) == Stops(p, "hold", "user") /\ count' = count + 1 /\ state' = Woken /\ UNCHANGED wait

Step(p) == \/ down(p) \/ down_set(p) \/ down_sleep(p) \/ down_woken(p) \/ down_leave(p)
           \/ take(p) \/ hold_sleep(p) \/ hold_woken(p) \/ up(p)

Next == \E p \in Procs : Step(p) \/ io_done(p)

Spec == Init /\ [][Next]_vars

\* The scheduler gives every runnable process the processor; I/O completes; whoever
\* holds the semaphore, one process at a time, does not sleep for I/O for ever.
Fairness == /\ \A p \in Procs : /\ SF_vars(down_woken(p) \/ hold_woken(p))
                                /\ WF_vars(io_done(p) \/ down_set(p) \/ down_sleep(p) \/ down_leave(p) \/ take(p))
            /\ SF_vars(\E p \in Procs : up(p))

FairSpec == Spec /\ Fairness

-----------------------------------------------------------------------------
Labels == {"user", "queued", "test", "asleep", "take", "hold", "io"}

TypeOK == /\ count \in 0..1
          /\ wait \subseteq Procs
          /\ state \in [Procs -> {"RUNNING", "UNINTERRUPTIBLE"}]
          /\ pc \in [Procs -> Labels]
          /\ cpu \in Procs \cup {None}

\* At most one process is between down and up, although the sleepers are all woken
\* together and newcomers may overtake them: __down tests the count again.
MutualExclusion ==
    \A p, q \in Procs : pc[p] \in {"hold", "io"} /\ pc[q] \in {"hold", "io"} => p = q

\* No wake-up is lost: while the semaphore is free, nobody who still waits for it is
\* asleep, whatever came between the test of the count and the sleep.
NoLostWakeup == count > 0 => \A p \in Procs : pc[p] = "asleep" => state[p] = "RUNNING"

\* Only processes inside __down are in the queue, and all of them are.
QueueExact == wait = {p \in Procs : pc[p] \in {"queued", "test", "asleep"}}

\* As long as somebody waits, somebody gets the semaphore again and again.
SomeoneEnters == \A p \in Procs : pc[p] = "asleep" ~> \E q \in Procs : pc[q] = "hold"
=============================================================================
