------------------------------ MODULE Swapoff ------------------------------
(***************************************************************************)
(* sys_swapoff, mm/swap.c: a process reads every page in from a swap file  *)
(* and then frees its maps, while all others go on.                        *)
(***************************************************************************)
EXTENDS Memory

VARIABLE off        \* the call: the task it is at, the entry it reads and where, and tmp

Off(pc) == [pc |-> pc, nr |-> 1, v |-> 0, e |-> 0, tmp |-> 0]

SwapoffInit == Init /\ off = Off("user")

\* Nothing more is put into the file.
sys_swapoff == /\ off.pc = "user"
               /\ off' = Off("scan")
               /\ mm' = [mm EXCEPT !.writeok = FALSE]
               /\ UNCHANGED <<proc, mem>>

InSwap(t) == {v \in Pages : mm.table[t][v].k = "swap"}

\* The loop of try_to_unuse from repeat on.  It goes back to the task it was at whenever
\* it had to sleep, for a page or for the disk.
try_to_unuse ==
    LET left == {t \in off.nr..NR_TASKS : HasTables(t) /\ InSwap(t) # {}}
        t == Min(left)  v == Min(InSwap(t))
    IN
    /\ off.pc = "scan"
    /\ CASE left = {} -> /\ mm' = IF off.tmp = 0 THEN mm ELSE free_page(mm, off.tmp)
                         /\ off' = Off("done")
       []   left # {} /\ off.tmp = 0 ->
                         /\ FreeFrames(mm) # {}
                         /\ mm' = [mm EXCEPT !.count[Min(FreeFrames(mm))] = 1]
                         /\ off' = [off EXCEPT !.nr = t, !.tmp = Min(FreeFrames(mm))]
       []   OTHER ->     /\ mm.table[t][v].n \notin mm.lock
                         /\ mm' = [mm EXCEPT !.lock = @ \cup {mm.table[t][v].n}]
                         /\ off' = [off EXCEPT !.pc = "read", !.nr = t, !.v = v, !.e = mm.table[t][v].n]
    /\ UNCHANGED <<proc, mem>>

unuse_read ==
    /\ off.pc = "read"
    /\ LET M == [mm EXCEPT !.val[off.tmp] = mm.data[off.e], !.lock = @ \ {off.e}]
       IN  IF M.table[off.nr][off.v] = Swapped(off.e)
           THEN /\ mm' = swap_free([M EXCEPT !.table[off.nr][off.v] = Present(off.tmp, TRUE, TRUE)], off.e)
                /\ off' = [off EXCEPT !.pc = "scan", !.tmp = 0]
           ELSE mm' = M /\ off' = [off EXCEPT !.pc = "scan"]
    /\ UNCHANGED <<proc, mem>>

SwapoffNext == (Next /\ UNCHANGED off) \/ sys_swapoff \/ try_to_unuse \/ unuse_read

SwapoffSpec == SwapoffInit /\ [][SwapoffNext]_<<vars, off>>

(* "When we have to sleep, we restart the whole algorithm from the same task we
   stopped in.  That at least rids us of all races": no live process has a page in
   the swap file any more when swapoff is done with it. *)
SwapGone == off.pc = "done" => \A t \in Tasks : HasTables(t) => InSwap(t) = {}
=============================================================================
