------------------------------- MODULE MCProcs -------------------------------
(***************************************************************************)
(* Processes and their memory for TLC: the tree of three processes besides *)
(* init, with a tracer, with job control or with clones; the pages of      *)
(* three processes, or of two with more swap; and kmalloc.  A behaviour is *)
(* one of the part that view names; none uses the state of another here.   *)
(***************************************************************************)
EXTENDS Integers

CONSTANTS Views, Users, Shell, Tracer, Leaders, KillStates, Task1, GETTY, NULL

VARIABLES view, task, mm, proc, mem, k, call, held

mvars == <<mm, proc, mem>>
kvars == <<k, call, held>>
vars == <<view, task, mvars, kvars>>

Plain == [untraced |-> FALSE, clone |-> FALSE]

T == INSTANCE ProcTree WITH SHELL <- Shell, Signals <- {}, Tracers <- {Tracer}, Leaders <- {}, Clones <- {17}, Options <- {Plain}

J == INSTANCE ProcTree WITH SHELL <- Shell, Signals <- {20}, Tracers <- {}, Leaders <- Leaders, Clones <- {17},
                            Options <- {[Plain EXCEPT !.untraced = TRUE]}

C == INSTANCE ProcTree WITH SHELL <- Shell, Signals <- {}, Tracers <- {}, Leaders <- {}, Clones <- {0, 17},
                            Options <- {Plain, [Plain EXCEPT !.clone = TRUE]}

M == INSTANCE Memory WITH NR_TASKS <- 3, NrPages <- 1, Frames <- {1, 2}, NrSwap <- 1, Values <- {0, 1}

S == INSTANCE Memory WITH NR_TASKS <- 2, NrPages <- 1, Frames <- {1, 2}, NrSwap <- 2, Values <- {0, 1}

K == INSTANCE Kmalloc WITH Procs <- {Shell, Tracer}, Frames <- 1..3, NBLOCKS <- <<1, 2>>, MAX_TRIES <- 2

NoPages == mm = NULL /\ proc = NULL /\ mem = NULL
NoBlocks == k = NULL /\ call = NULL /\ held = NULL

Init == /\ view \in Views
        /\ T!Init
        /\ IF view = "pages" THEN M!Init ELSE IF view = "swap" THEN S!Init ELSE NoPages
        /\ IF view = "kmalloc" THEN K!Init ELSE NoBlocks

Next == \/ view = "trace" /\ T!Next /\ UNCHANGED <<view, mvars, kvars>>
        \/ view = "jobs" /\ J!Next /\ UNCHANGED <<view, mvars, kvars>>
        \/ view = "clones" /\ C!Next /\ UNCHANGED <<view, mvars, kvars>>
        \/ view = "pages" /\ M!Next /\ UNCHANGED <<view, task, kvars>>
        \/ view = "swap" /\ S!Next /\ UNCHANGED <<view, task, kvars>>
        \/ view = "kmalloc" /\ K!Next /\ UNCHANGED <<view, task, mvars>>

Spec == Init /\ [][Next]_vars

-----------------------------------------------------------------------------
\* TreeAudited of ProcTree: the links between parents, children and siblings agree.
TreeAudited == T!TreeAudited

\* WaiterWoken of ProcTree: nobody sleeps in wait4 with a child to report.
WaiterWoken == T!WaiterWoken

\* OrphansContinued of ProcTree, a property of steps: no process group is orphaned with
\* stopped members.
OrphansContinued == J!OrphansContinued

\* MemoryKept of Memory: through copy on write, fork and swapping every process keeps
\* what it wrote.
MemoryKept == (view = "pages" => M!MemoryKept) /\ (view = "swap" => S!MemoryKept)

\* CountsExact and OwnerKept of Memory, BlocksExact of Kmalloc: mem_map and swap_map count
\* the users of frames and swap places, no process is released while swap_out writes its
\* page, and every block of kmalloc is free on one list or with one caller.
CountsExact == /\ view = "pages" => M!CountsExact /\ M!OwnerKept
               /\ view = "swap" => S!CountsExact /\ S!OwnerKept
               /\ view = "kmalloc" => K!BlocksExact

\* DeadStaysDead of ProcTree, a property of steps: a zombie does not run again.
DeadStaysDead == T!DeadStaysDead
=============================================================================
