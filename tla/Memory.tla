------------------------------- MODULE Memory -------------------------------
(***************************************************************************)
(* Demand-zero pages, copy on write and swapping: mm/memory.c, mm/swap.c.  *)
(* Whoever needs a page and finds none free takes one from some process;   *)
(* a dirty page is written to swap first, and everybody else runs          *)
(* meanwhile.  Steps are the code between two sleeps.                      *)
(*                                                                         *)
(* All pages are private.  Page tables are never short of pages.  A page   *)
(* that was used or allocated lately is not swapped out: any page may be   *)
(* in that state, so any may be taken and none need be.                    *)
(***************************************************************************)
EXTENDS Integers, FiniteSets, FiniteSetsExt

CONSTANTS NR_TASKS,           \* the places in task[]
          NrPages,            \* the pages of a process's memory
          Frames,             \* the page frames, numbers
          NrSwap,             \* the pages of the swap file
          Values              \* what processes write; a new page holds 0

Tasks == 1..NR_TASKS
Pages == 1..NrPages
Offsets == 1..NrSwap

VARIABLES mm,        \* page tables, mem_map with the contents of frames, and the swap file
          proc,      \* what a process is doing
          mem        \* history: what a process has in its memory

vars == <<mm, proc, mem>>

\* A page table entry: nothing, a frame (with PAGE_RW and PAGE_DIRTY) or a place in swap.
None == [k |-> "none", n |-> 0, rw |-> FALSE, dirty |-> FALSE]
Present(f, rw, dirty) == [k |-> "page", n |-> f, rw |-> rw, dirty |-> dirty]
Swapped(e) == [None EXCEPT !.k = "swap", !.n = e]

\* A process: where it is, the page it is at, the place in swap and the frame it reads to,
\* the child it makes, and what it swaps out: the frame, the place and the owner.
At(pc) == [pc |-> pc, v |-> 0, e |-> 0, f |-> 0, c |-> 0, out |-> <<>>]

Init == /\ mm = [table |-> [t \in Tasks |-> [v \in Pages |-> None]],
                 count |-> [f \in Frames |-> 0], val |-> [f \in Frames |-> 0],
                 map |-> [o \in Offsets |-> 0], data |-> [o \in Offsets |-> 0], lock |-> {},
                 writeok |-> TRUE, lowest |-> 1, highest |-> NrSwap, nr |-> NrSwap]
        /\ proc = [t \in Tasks |-> At(IF t = 1 THEN "user" ELSE "none")]
        /\ mem = [t \in Tasks |-> [v \in Pages |-> 0]]

-----------------------------------------------------------------------------
(* Each operator gives mm after a change to M.                             *)

free_page(M, f) == [M EXCEPT !.count[f] = @ - 1]

FreeFrames(M) == {f \in Frames : M.count[f] = 0}

\* get_swap_page: the offsets it looks at, and the state after it took o.
FreeSwap(M) == {o \in M.lowest..M.highest : M.writeok /\ M.map[o] = 0}
TakeSwap(M, o) == [M EXCEPT !.map[o] = 1, !.nr = @ - 1, !.lowest = o, !.highest = IF o = @ THEN @ - 1 ELSE @]

\* Seeded slip: highest_bit is left alone.
FreeLow(M, o) == [M EXCEPT !.lowest = IF o < @ THEN o ELSE @,
                           !.map[o] = @ - 1, !.nr = IF M.map[o] = 1 THEN @ + 1 ELSE @]

\* swap_free, once the page is not locked.
swap_free(M, o) == [M EXCEPT !.lowest = IF o < @ THEN o ELSE @, !.highest = IF o > @ THEN o ELSE @,
                             !.map[o] = @ - 1, !.nr = IF M.map[o] = 1 THEN @ + 1 ELSE @]

Goes(p, r) == proc' = [proc EXCEPT ![p] = r]

-----------------------------------------------------------------------------
(* __get_free_page: p holds nothing and needs a frame, to go on with Got.  *)

\* get_empty_page and put_page
GotEmpty(M, p, v, f) == [M EXCEPT !.val[f] = 0, !.table[p][v] = Present(f, TRUE, FALSE)]

\* __do_wp_page, from the allocation on: the checks are done again.
__do_wp_page(M, p, v, f) ==
    LET old == M.table[p][v] IN
    IF old.k # "page" \/ old.rw THEN free_page(M, f)
    ELSE IF M.count[old.n] # 1
    THEN free_page([M EXCEPT !.val[f] = M.val[old.n], !.table[p][v] = Present(f, TRUE, old.dirty)], old.n)
    ELSE free_page([M EXCEPT !.table[p][v].rw = TRUE], f)

\* Seeded slip: a page is read although it is still being written.
ReadNow(M, p, r) == mm' = [M EXCEPT !.lock = @ \cup {r.e}] /\ Goes(p, [r EXCEPT !.pc = "read"])

\* read_swap_page: the page is read once nobody else has it locked.
ReadSwap(M, p, r) == IF r.e \in M.lock THEN mm' = M /\ Goes(p, [r EXCEPT !.pc = "lock"])
                     ELSE mm' = [M EXCEPT !.lock = @ \cup {r.e}] /\ Goes(p, [r EXCEPT !.pc = "read"])

Got(p, f) ==
    LET M == [mm EXCEPT !.count[f] = 1]  r == proc[p] IN
    CASE r.pc = "empty" -> mm' = GotEmpty(M, p, r.v, f) /\ Goes(p, At("user"))
    []   r.pc = "wp" -> mm' = __do_wp_page(M, p, r.v, f) /\ Goes(p, At("user"))
    []   OTHER -> ReadSwap(M, p, [r EXCEPT !.f = f])

Needs(p) == proc[p].pc \in {"empty", "wp", "in"} /\ proc[p].out = <<>>

get_free_page(p) ==
    /\ Needs(p) /\ FreeFrames(mm) # {}
    /\ Got(p, Min(FreeFrames(mm)))
    /\ UNCHANGED mem

\* What try_to_swap_out can take: clean pages, and dirty ones that nobody shares.
Swappable(pte) == pte.k = "page" /\ (pte.dirty => mm.count[pte.n] = 1 /\ FreeSwap(mm) # {})

\* Processes whose tables swap_out finds: an exiting one has let go of them.
HasTables(t) == proc[t].pc \notin {"none", "exit"}

\* A clean page is dropped; p goes on looking if that freed no frame.
swap_out_clean(p) ==
    /\ Needs(p) /\ FreeFrames(mm) = {}
    /\ \E t \in Tasks, v \in Pages :
        LET pte == mm.table[t][v] IN
        /\ HasTables(t) /\ Swappable(pte) /\ ~pte.dirty
        /\ mm' = free_page([mm EXCEPT !.table[t][v] = None], pte.n)
    /\ UNCHANGED <<proc, mem>>

\* A dirty page is written, with p asleep in write_swap_page.
swap_out(p) ==
    /\ Needs(p) /\ FreeFrames(mm) = {}
    /\ \E t \in Tasks, v \in Pages :
        LET pte == mm.table[t][v]  o == Min(FreeSwap(mm)) IN
        /\ HasTables(t) /\ Swappable(pte) /\ pte.dirty
        /\ mm' = [TakeSwap(mm, o) EXCEPT !.table[t][v] = Swapped(o), !.lock = @ \cup {o}]
        /\ Goes(p, [proc[p] EXCEPT !.out = <<pte.n, o, t>>])
    /\ UNCHANGED mem

\* The write is done: the page is unlocked, the frame is free, and p tries again.
swap_written(p) ==
    /\ proc[p].out # <<>>
    /\ LET f == proc[p].out[1]  o == proc[p].out[2]
       IN  mm' = free_page([mm EXCEPT !.data[o] = mm.val[f], !.lock = @ \ {o}], f)
    /\ Goes(p, [proc[p] EXCEPT !.out = <<>>])
    /\ UNCHANGED mem

\* No page can be had: the process is killed, unless the page that it was to copy has gone
\* or become its own.  The entry becomes BAD_PAGE and what it was is freed, as exit would
\* free it.
oom(p) ==
    LET v == proc[p].v  old == mm.table[p][v] IN
    /\ Needs(p) /\ FreeFrames(mm) = {}
    /\ IF proc[p].pc = "wp" /\ (old.k # "page" \/ old.rw \/ mm.count[old.n] = 1)
       THEN mm' = (IF old.k = "page" THEN [mm EXCEPT !.table[p][v].rw = TRUE] ELSE mm) /\ Goes(p, At("user"))
       ELSE Goes(p, [At("exit") EXCEPT !.v = 1]) /\ UNCHANGED mm
    /\ UNCHANGED mem

-----------------------------------------------------------------------------
(* Faults, and what user code does between them                            *)

User(p) == proc[p].pc = "user"

store(p, v, x) ==
    /\ User(p) /\ mm.table[p][v].k = "page" /\ mm.table[p][v].rw
    /\ mm' = [mm EXCEPT !.val[mm.table[p][v].n] = x, !.table[p][v].dirty = TRUE]
    /\ mem' = [mem EXCEPT ![p][v] = x]
    /\ UNCHANGED proc

do_wp_page(p, v) ==
    LET pte == mm.table[p][v] IN
    /\ User(p) /\ pte.k = "page" /\ ~pte.rw
    /\ IF mm.count[pte.n] = 1
       THEN mm' = [mm EXCEPT !.table[p][v] = Present(pte.n, TRUE, TRUE)] /\ UNCHANGED proc
       ELSE Goes(p, [At("wp") EXCEPT !.v = v]) /\ UNCHANGED mm
    /\ UNCHANGED mem

do_no_page(p, v) ==
    LET pte == mm.table[p][v] IN
    /\ User(p) /\ pte.k # "page"
    /\ Goes(p, IF pte.k = "none" THEN [At("empty") EXCEPT !.v = v] ELSE [At("in") EXCEPT !.v = v, !.e = pte.n])
    /\ UNCHANGED <<mm, mem>>

swap_locked(p) == /\ proc[p].pc = "lock" /\ proc[p].e \notin mm.lock
                  /\ ReadSwap(mm, p, proc[p])
                  /\ UNCHANGED mem

\* swap_in, when the page has been read.
swap_in(M, p, r) ==
    IF M.table[p][r.v] = Swapped(r.e)
    THEN swap_free([M EXCEPT !.table[p][r.v] = Present(r.f, TRUE, TRUE)], r.e)
    ELSE free_page(M, r.f)

swap_read(p) ==
    LET r == proc[p] IN
    /\ r.pc = "read"
    /\ mm' = swap_in([mm EXCEPT !.val[r.f] = mm.data[r.e], !.lock = @ \ {r.e}], p, r)
    /\ Goes(p, At("user"))
    /\ UNCHANGED mem

-----------------------------------------------------------------------------
\* fork takes the lowest free place; its copy of the tables sleeps before each.
fork(p) ==
    /\ User(p)
    /\ \E c \in Tasks :
        /\ proc[c].pc = "none" /\ \A b \in 1..(c - 1) : proc[b].pc # "none"
        /\ proc' = [proc EXCEPT ![p] = [At("fork") EXCEPT !.v = 1, !.c = c], ![c] = At("embryo")]
    /\ UNCHANGED <<mm, mem>>

\* copy_page_tables, one entry: both processes lose the right to write.
Copied(M, p, c, v) ==
    LET pte == M.table[p][v] IN
    CASE pte.k = "none" -> M
    []   pte.k = "swap" -> [M EXCEPT !.table[c][v] = pte, !.map[pte.n] = @ + 1]
    []   OTHER -> [M EXCEPT !.table[c][v] = [pte EXCEPT !.rw = FALSE],
                            !.table[p][v].rw = FALSE, !.count[pte.n] = @ + 1]

copy_page_tables(p) ==
    LET c == proc[p].c  v == proc[p].v IN
    /\ proc[p].pc = "fork"
    /\ mm' = Copied(mm, p, c, v)
    /\ mem' = [mem EXCEPT ![c][v] = mem[p][v]]
    /\ proc' = IF v < NrPages THEN [proc EXCEPT ![p].v = v + 1]
               ELSE [proc EXCEPT ![p] = At("user"), ![c] = At("user")]

exit(p) == User(p) /\ Goes(p, [At("exit") EXCEPT !.v = 1]) /\ UNCHANGED <<mm, mem>>

\* Seeded slip: a place in swap is given up while it is still being written.
UnlockedAny(e) == TRUE

Unlocked(e) == e \notin mm.lock

\* free_one_table; swap_free waits until the page is not locked.
free_page_tables(p) ==
    LET v == proc[p].v  pte == mm.table[p][v] IN
    /\ proc[p].pc = "exit"
    /\ pte.k = "swap" => Unlocked(pte.n)
    /\ LET M == [mm EXCEPT !.table[p][v] = None]
       IN  mm' = CASE pte.k = "page" -> free_page(M, pte.n) [] pte.k = "swap" -> swap_free(M, pte.n) [] OTHER -> M
    /\ Goes(p, IF v < NrPages THEN [proc[p] EXCEPT !.v = v + 1] ELSE At("none"))
    /\ mem' = [mem EXCEPT ![p][v] = 0]

Fault(p) == \/ get_free_page(p) \/ swap_out_clean(p) \/ swap_out(p) \/ swap_written(p) \/ oom(p)
            \/ swap_locked(p) \/ swap_read(p)

Next == \E p \in Tasks :
            \/ Fault(p) \/ fork(p) \/ copy_page_tables(p) \/ exit(p) \/ free_page_tables(p)
            \/ \E v \in Pages : do_wp_page(p, v) \/ do_no_page(p, v) \/ \E x \in Values : store(p, v, x)

Spec == Init /\ [][Next]_vars

-----------------------------------------------------------------------------
(* Every process finds in its memory what it wrote last, or inherited, and
   nothing else: in the frame of the page, in swap (or in the frame that is
   still being written there), or 0 where it has no page yet. *)
MemoryKept ==
    \A p \in Tasks, v \in Pages : proc[p].pc \notin {"none", "embryo"} =>
        LET pte == mm.table[p][v] IN
        CASE pte.k = "page" -> mm.val[pte.n] = mem[p][v]
        []   pte.k = "swap" -> \/ mm.data[pte.n] = mem[p][v]
                               \/ \E q \in Tasks : proc[q].out # <<>> /\ proc[q].out[2] = pte.n /\ mm.val[proc[q].out[1]] = mem[p][v]
        []   OTHER -> mem[p][v] = 0

Entries(pte) == {<<p, v>> \in Tasks \X Pages : mm.table[p][v].k = pte.k /\ mm.table[p][v].n = pte.n}

(* mem_map and swap_map count the table entries and the transfers that use a
   frame or a place, so that free_page and swap_free never meet one that is
   free; nr_swap_pages is the number of free places, and all of them lie where
   get_swap_page looks. *)
CountsExact ==
    /\ \A f \in Frames : mm.count[f] = Cardinality(Entries(Present(f, FALSE, FALSE)))
            + Cardinality({p \in Tasks : proc[p].f = f \/ (proc[p].out # <<>> /\ proc[p].out[1] = f)})
    /\ \A o \in Offsets : mm.map[o] = Cardinality(Entries(Swapped(o)))
    /\ mm.nr = Cardinality({o \in Offsets : mm.map[o] = 0})
    /\ \A o \in Offsets : mm.map[o] = 0 => o \in mm.lowest..mm.highest

(* The process whose page is being written has not been released when swap_out
   goes on to count down its rss. *)
OwnerKept == \A p \in Tasks : proc[p].out # <<>> =>
                 \E v \in Pages : mm.table[proc[p].out[3]][v] = Swapped(proc[p].out[2])
=============================================================================
