------------------------------ MODULE ProcTree ------------------------------
(***************************************************************************)
(* The process tree: sys_fork, do_exit, sys_wait4 and the signals and      *)
(* stops that parents are told of, with tracing, which moves a process to  *)
(* another parent for a while, and process groups, which an exit may       *)
(* orphan.  kernel/fork.c, exit.c, signal.c and ptrace.c.                  *)
(*                                                                         *)
(* All signals have their default actions.  A pid is the place in task[]:  *)
(* find_empty_process gives none that a group still uses.  A process       *)
(* sleeps in fork and in exit, where they wait for memory or inodes, in    *)
(* wait4, and while it is stopped.                                         *)
(***************************************************************************)
EXTENDS Integers, FiniteSets, SequencesExt, FiniteSetsExt

CONSTANTS Users,     \* the pids that processes other than the first two get
          Task1,      \* task[1], which waits for ever
          GETTY,     \* another child of it, which does nothing
          SHELL,     \* the member of Users that is there initially
          NULL,
          Signals,   \* the signals that processes send
          Tracers,   \* the processes that trace others
          Leaders,   \* the processes that make groups of their own
          Clones,    \* the exit signals that fork or clone asks for
          KillStates,\* the states in which a traced process is sent PTRACE_KILL
          Options    \* how wait4 is called: whether stopped children and clones count

HUP == 1
KILL == 9
CHLD == 17
CONT == 18
STOP == 19
TSTP == 20

Tasks == Users \cup {Task1, GETTY}

VARIABLE task        \* task[]: pc is where a process is in the kernel, arg the child it
                     \* forks, the code it exits with or the options it waits with

NoTask == [state |-> NULL, pc |-> NULL, arg |-> NULL, pptr |-> NULL, opptr |-> NULL, cptr |-> NULL,
           osptr |-> NULL, ysptr |-> NULL, traced |-> FALSE, exit_code |-> 0, exit_signal |-> CHLD,
           signal |-> {}, pgrp |-> NULL]

Child(p, g) == [NoTask EXCEPT !.state = "RUNNING", !.pc = "user", !.pptr = p, !.opptr = p, !.pgrp = g]

Init == task = [t \in Tasks |->
            IF t = Task1 THEN [Child(NULL, Task1) EXCEPT !.cptr = SHELL]
            ELSE IF t = GETTY THEN [Child(Task1, GETTY) EXCEPT !.ysptr = SHELL]
            ELSE IF t = SHELL THEN [Child(Task1, SHELL) EXCEPT !.osptr = GETTY]
            ELSE NoTask]

-----------------------------------------------------------------------------
(* The links: each operator gives the table after a change to T.           *)

Live(T) == {t \in Tasks : T[t].state # NULL}

SET_LINKS(T, t) ==
    LET p == T[t].pptr  o == T[p].cptr
        T1 == [T EXCEPT ![t] = [@ EXCEPT !.ysptr = NULL, !.osptr = o], ![p].cptr = t]
    IN  IF o = NULL THEN T1 ELSE [T1 EXCEPT ![o].ysptr = t]

REMOVE_LINKS(T, t) ==
    LET o == T[t].osptr  y == T[t].ysptr
        T1 == IF o = NULL THEN T ELSE [T EXCEPT ![o].ysptr = y]
    IN  IF y = NULL THEN [T1 EXCEPT ![T[t].pptr].cptr = o] ELSE [T1 EXCEPT ![y].osptr = o]

\* t gets the parent p.
Move(T, t, p) == SET_LINKS([REMOVE_LINKS(T, t) EXCEPT ![t].pptr = p], t)

\* The children of p, from the youngest on, as p_cptr and p_osptr give them.
Children(T, p) ==
    LET nth[i \in 0..Cardinality(Tasks)] ==
            IF i = 0 THEN T[p].cptr ELSE IF nth[i - 1] = NULL THEN NULL ELSE T[nth[i - 1]].osptr
    IN  SelectSeq([i \in 1..Cardinality(Tasks) |-> nth[i - 1]], LAMBDA t : t # NULL)

-----------------------------------------------------------------------------
(* Signals                                                                 *)

\* Signals that are ignored by default are only generated for traced processes.
generate(T, sig, t) == IF T[t].traced \/ sig \notin {CONT, CHLD}
                       THEN [T EXCEPT ![t].signal = @ \cup {sig}] ELSE T

send_sig(T, sig, t) ==
    LET T1 == CASE sig \in {KILL, CONT} ->
                       [T EXCEPT ![t] = [@ EXCEPT !.state = IF @ = "STOPPED" THEN "RUNNING" ELSE @,
                                                  !.exit_code = 0, !.signal = @ \ {STOP, TSTP}]]
              []   sig \in {STOP, TSTP} -> [T EXCEPT ![t].signal = @ \ {CONT}]
              []   OTHER -> T
    IN  IF sig = 0 THEN T ELSE generate(T1, sig, t)

kill_pg(T, g, sig) == FoldSet(LAMBDA t, acc : send_sig(acc, sig, t), T, {t \in Live(T) : T[t].pgrp = g})

\* A child of init always sends SIGCHLD.
notify_parent(T, t) ==
    LET p == T[t].pptr
        T1 == IF p = Task1 THEN [T EXCEPT ![t].exit_signal = CHLD] ELSE T
        T2 == send_sig(T1, T1[t].exit_signal, p)
    IN  [T2 EXCEPT ![p].state = IF @ = "INTERRUPTIBLE" THEN "RUNNING" ELSE @]

\* Init and the process beside it are in sessions of their own.
session(t) == IF t \in Users THEN SHELL ELSE t

is_orphaned_pgrp(T, g) ==
    \A t \in Live(T) \ {Task1} :
        LET p == T[t].pptr IN
        T[t].pgrp # g \/ T[t].state = "ZOMBIE" \/ p = Task1 \/ T[p].pgrp = g \/ session(p) # session(t)

has_stopped_jobs(T, g) == \E t \in Live(T) : T[t].pgrp = g /\ T[t].state = "STOPPED"

\* SIGHUP and SIGCONT for a group that is orphaned now.
Orphaned(T, g) == IF is_orphaned_pgrp(T, g) /\ has_stopped_jobs(T, g)
                  THEN kill_pg(kill_pg(T, g, HUP), g, CONT) ELSE T

-----------------------------------------------------------------------------
(* Each action is the code that process p runs from one sleep to the next. *)

\* schedule() makes a process runnable that sleeps interruptibly with a signal.
Runs(p, pc) == /\ task[p].pc = pc
               /\ \/ task[p].state = "RUNNING"
                  \/ task[p].state = "INTERRUPTIBLE" /\ task[p].signal # {}

\* User code runs when no signal is left to handle.
InUser(p) == Runs(p, "user") /\ task[p].signal = {}

\* p runs on, or sleeps in state s.
Goes(T, p, s, pc, arg) == task' = [T EXCEPT ![p] = [@ EXCEPT !.state = s, !.pc = pc, !.arg = arg]]

\* The child is linked before its stack and page tables are allocated.
fork(p) ==
    /\ InUser(p)
    /\ \E c \in Users \ Live(task) :
        /\ \A t \in Live(task) : task[t].pgrp # c
        /\ LET T1 == [task EXCEPT ![c] = [NoTask EXCEPT !.state = "UNINTERRUPTIBLE", !.pc = "user",
                                                 !.pptr = p, !.opptr = p, !.pgrp = task[p].pgrp,
                                                 !.exit_code = task[p].exit_code,
                                                 !.exit_signal = task[p].exit_signal]]
           IN  Goes(SET_LINKS(T1, c), p, "UNINTERRUPTIBLE", "fork", c)

fork_done(p) ==
    /\ task[p].pc = "fork"
    /\ \E s \in Clones :
        Goes([task EXCEPT ![task[p].arg] = [@ EXCEPT !.exit_signal = s, !.state = "RUNNING"]], p, "RUNNING", "user", NULL)

bad_fork_cleanup(p) ==
    /\ task[p].pc = "fork"
    /\ Goes([REMOVE_LINKS(task, task[p].arg) EXCEPT ![task[p].arg] = NoTask], p, "RUNNING", "user", NULL)

setpgid(p) ==
    /\ InUser(p)
    /\ p \in Leaders \ {SHELL}
    /\ task' = [task EXCEPT ![p].pgrp = p]

kill(p) == /\ InUser(p)
           /\ \E t \in Live(task) \ {GETTY}, sig \in Signals : task' = send_sig(task, sig, t)

-----------------------------------------------------------------------------
(* Exit                                                                    *)

\* do_exit up to the first sleep, when files are closed.
do_exit(T, p, code) == Goes(T, p, "UNINTERRUPTIBLE", "close", code)

\* do_exit starts again at fake_volatile, should its last schedule() return.
sys_exit(p) == \E pc \in {"user", "dead"} :
    /\ Runs(p, pc)
    /\ pc = "user" => task[p].signal = {}
    /\ do_exit(task, p, IF pc = "user" THEN 256 ELSE task[p].arg)

\* Seeded slip: the children that somebody traces are left out.
ForgetOwn(T, p) == [t \in Tasks |-> IF T[t].opptr = p /\ T[t].pptr = p THEN [T[t] EXCEPT !.opptr = Task1] ELSE T[t]]

forget_original_parent(T, p) ==
    [t \in Tasks |-> IF T[t].opptr = p THEN [T[t] EXCEPT !.opptr = Task1] ELSE T[t]]

\* The next sleep is in iput, for the working directory and the program.
exit_files(p) ==
    /\ task[p].pc = "close"
    /\ Goes(forget_original_parent(task, p), p, "UNINTERRUPTIBLE", "iput", task[p].arg)

\* Init inherits the child t of p.
Inherit(T, p, t) ==
    LET o == T[Task1].cptr
        T1 == [T EXCEPT ![p].cptr = T[t].osptr, ![o].ysptr = t, ![Task1].cptr = t,
                        ![t] = [@ EXCEPT !.ysptr = NULL, !.traced = FALSE, !.pptr = Task1, !.osptr = o]]
        T2 == IF T1[t].state = "ZOMBIE" THEN notify_parent(T1, t) ELSE T1
    IN  IF T2[t].pgrp # T2[p].pgrp /\ session(t) = session(p) THEN Orphaned(T2, T2[t].pgrp) ELSE T2

\* Seeded slip: the process's own group is checked before it is a zombie.
DiesLate(T, p) ==
    LET q == T[p].pptr
        T1 == IF T[q].pgrp # T[p].pgrp /\ session(q) = session(p) THEN Orphaned(T, T[p].pgrp) ELSE T
    IN  [T1 EXCEPT ![p] = [@ EXCEPT !.state = "ZOMBIE", !.exit_code = T[p].arg]]

Dies(T, p) ==
    LET q == T[p].pptr
        T1 == [T EXCEPT ![p] = [@ EXCEPT !.state = "ZOMBIE", !.exit_code = T[p].arg]]
    IN  IF T[q].pgrp # T[p].pgrp /\ session(q) = session(p) THEN Orphaned(T1, T[p].pgrp) ELSE T1

exit_notify(p) ==
    /\ task[p].pc = "iput"
    /\ LET T1 == notify_parent(Dies(task, p), p)
           T2 == FoldLeft(LAMBDA acc, t : Inherit(acc, p, t), T1, Children(T1, p))
       IN  task' = [T2 EXCEPT ![p].pc = "dead"]
-----------------------------------------------------------------------------
(* Waiting                                                                 *)

\* Whether wait4 with options o looks at a child, and whether it reports it.
Counts(T, t, o) == (T[t].exit_signal # CHLD) = o.clone

Reports(T, t, o) == /\ Counts(T, t, o)
                    /\ \/ T[t].state = "ZOMBIE"
                       \/ T[t].state = "STOPPED" /\ T[t].exit_code # 0 /\ (o.untraced \/ T[t].traced)

\* Seeded slip: the parent that gets the zombie back is not told.
ReapQuietly(T, t) == IF T[t].opptr # T[t].pptr THEN Move(T, t, T[t].opptr)
                     ELSE [REMOVE_LINKS(T, t) EXCEPT ![t] = NoTask]

\* A zombie that was traced goes back to its own parent; any other is released.
Reap(T, t) == IF T[t].opptr # T[t].pptr THEN notify_parent(Move(T, t, T[t].opptr), t)
              ELSE [REMOVE_LINKS(T, t) EXCEPT ![t] = NoTask]

Repeat(p, o) ==
    LET reported == SelectSeq(Children(task, p), LAMBDA t : Reports(task, t, o))
        t == Head(reported)
    IN  IF reported # <<>>
        THEN Goes(IF task[t].state = "STOPPED" THEN [task EXCEPT ![t].exit_code = 0] ELSE Reap(task, t),
                  p, "RUNNING", "user", NULL)
        ELSE IF \E c \in Range(Children(task, p)) : Counts(task, c, o)
        THEN Goes(task, p, "INTERRUPTIBLE", "wait", o)
        ELSE Goes(task, p, "RUNNING", "user", NULL)

\* Init asks for neither stopped children nor clones.
wait4(p) == /\ InUser(p)
            /\ \E o \in IF p = Task1 THEN {[untraced |-> FALSE, clone |-> FALSE]} ELSE Options : Repeat(p, o)

wait4_woken(p) ==
    /\ Runs(p, "wait")
    /\ IF task[p].signal \ {CHLD} # {}
       THEN Goes([task EXCEPT ![p].signal = @ \ {CHLD}], p, "RUNNING", "user", NULL)
       ELSE Repeat(p, task[p].arg)

-----------------------------------------------------------------------------
(* Signals are handled on the way back to user mode.                       *)

\* The default action of sig for p.
Default(T, p, sig) ==
    IF p = Task1 \/ sig \in {CONT, CHLD} \/ (sig \in {STOP, TSTP} /\ T[p].traced)
    THEN Goes(T, p, "RUNNING", "user", NULL)
    ELSE IF sig \in {STOP, TSTP}
    THEN Goes(notify_parent([T EXCEPT ![p] = [@ EXCEPT !.exit_code = sig, !.state = "STOPPED"]], p), p, "STOPPED", "stopped", NULL)
    ELSE do_exit([T EXCEPT ![p].signal = @ \cup {sig}], p, sig)

do_signal(p) ==
    /\ Runs(p, "user")
    /\ task[p].signal # {}
    /\ LET sig == Min(task[p].signal)
           T1 == [task EXCEPT ![p].signal = @ \ {sig}]
       IN  IF task[p].traced /\ sig # KILL
           THEN Goes(notify_parent([T1 EXCEPT ![p] = [@ EXCEPT !.exit_code = sig, !.state = "STOPPED"]], p),
                     p, "STOPPED", "traced", NULL)
           ELSE Default(T1, p, sig)

\* The tracer has left the signal to go on with in exit_code.
traced_woken(p) ==
    /\ Runs(p, "traced")
    /\ LET sig == task[p].exit_code IN
       IF sig \in {0, STOP} THEN Goes([task EXCEPT ![p].exit_code = 0], p, "RUNNING", "user", NULL)
       ELSE Default([task EXCEPT ![p].exit_code = 0], p, sig)

stopped_woken(p) == Runs(p, "stopped") /\ Goes(task, p, "RUNNING", "user", NULL)

-----------------------------------------------------------------------------
(* Tracing                                                                 *)

PTRACE_TRACEME(p) == InUser(p) /\ ~task[p].traced /\ task' = [task EXCEPT ![p].traced = TRUE]

PTRACE_ATTACH(p, t) ==
    /\ InUser(p)
    /\ t \in (Live(task) \cap Users) \ {p}
    /\ ~task[t].traced
    /\ LET T1 == [task EXCEPT ![t].traced = TRUE]
       IN  task' = send_sig(IF task[t].pptr = p THEN T1 ELSE Move(T1, t, p), STOP, t)

Traces(p, t) == InUser(p) /\ task[t].traced /\ task[t].pptr = p

PTRACE_CONT(p, t) ==
    /\ Traces(p, t) /\ task[t].state = "STOPPED"
    /\ \E data \in Signals \cup {0} : task' = [task EXCEPT ![t] = [@ EXCEPT !.exit_code = data, !.state = "RUNNING"]]

PTRACE_KILL(p, t) ==
    /\ Traces(p, t) /\ task[t].state \in KillStates
    /\ task' = [task EXCEPT ![t] = [@ EXCEPT !.exit_code = KILL, !.state = "RUNNING"]]

PTRACE_DETACH(p, t) ==
    /\ Traces(p, t) /\ task[t].state = "STOPPED"
    /\ \E data \in Signals \cup {0} :
        task' = Move([task EXCEPT ![t] = [@ EXCEPT !.traced = FALSE, !.exit_code = data, !.state = "RUNNING"]], t, task[t].opptr)

-----------------------------------------------------------------------------
Trace(p) == \/ PTRACE_TRACEME(p)
            \/ \E t \in Users : PTRACE_ATTACH(p, t) \/ PTRACE_CONT(p, t) \/ PTRACE_KILL(p, t) \/ PTRACE_DETACH(p, t)

Kernel(p) == \/ fork_done(p) \/ bad_fork_cleanup(p) \/ exit_files(p) \/ exit_notify(p)
             \/ wait4_woken(p) \/ do_signal(p) \/ traced_woken(p) \/ stopped_woken(p)

Next == \/ \E p \in Users : fork(p) \/ setpgid(p) \/ kill(p) \/ sys_exit(p) \/ wait4(p) \/ Kernel(p)
        \/ \E p \in Tracers : Trace(p)
        \/ wait4(Task1) \/ wait4_woken(Task1)

Spec == Init /\ [][Next]_task

-----------------------------------------------------------------------------
Pointers(t) == {task[t].pptr, task[t].cptr, task[t].ysptr, task[t].osptr} \ {NULL}

(* What audit_ptree checks: the links of a process lead to processes, never to
   itself, and siblings, parents and children agree; so, of p_opptr, which it
   leaves out, wait4 and PTRACE_DETACH never follow one to a released process. *)
TreeAudited ==
    \A t \in Live(task) :
        /\ Pointers(t) \cup ({task[t].opptr} \ {NULL}) \subseteq Live(task) \ {t}
        /\ task[t].osptr # NULL => task[task[t].osptr].pptr = task[t].pptr /\ task[task[t].osptr].ysptr = t
        /\ task[t].ysptr # NULL => task[task[t].ysptr].pptr = task[t].pptr /\ task[task[t].ysptr].osptr = t
        /\ task[t].cptr # NULL => task[task[t].cptr].pptr = t /\ task[task[t].cptr].ysptr = NULL
        /\ t # Task1 /\ task[t].ysptr = NULL => task[task[t].pptr].cptr = t
        /\ LET n == Cardinality({c \in Live(task) : task[c].pptr = t})     \* a ring beside the list needs a third
           IN  n > 2 => Len(Children(task, t)) = n

(* Nobody sleeps in wait4 with a child to report: each way a child can come to
   be reported (exit, a stop, a zombie that init inherits or that its tracer
   gives back) wakes the parent that it has by then.  And init waits for every
   zombie that it inherits, whatever signal the process was made to send. *)
WaiterWoken ==
    /\ \A p \in Live(task) : (task[p].pc = "wait" /\ task[p].state = "INTERRUPTIBLE") =>
            \A t \in Live(task) : task[t].pptr = p => ~Reports(task, t, task[p].arg)
    /\ \A t \in Live(task) : (task[t].state = "ZOMBIE" /\ task[t].pptr = Task1) => task[t].exit_signal = CHLD

(* "Newly orphaned process groups are to receive a SIGHUP and a SIGCONT": no
   member is left stopped when an exit orphans its group. *)
OrphansContinued ==
    [][\A p \in Users : (task[p].pc = "iput" /\ task'[p].pc = "dead") =>
        \A g \in Users : (~is_orphaned_pgrp(task, g) /\ is_orphaned_pgrp(task', g)) => ~has_stopped_jobs(task', g)]_task

(* "When current->state = ZOMBIE, schedule() never returns" (do_exit): a
   zombie stays one until it is released. *)
DeadStaysDead == [][\A t \in Users : task[t].state = "ZOMBIE" => task'[t].state \in {"ZOMBIE", NULL}]_task
=============================================================================
