------------------------------ MODULE Kmalloc ------------------------------
(***************************************************************************)
(* kmalloc and kfree_s, mm/kmalloc.c.  Each size has a list of the pages   *)
(* that have free blocks, and each page a list of them.  The lists change  *)
(* with interrupts off; __get_free_page may sleep between two looks at     *)
(* them, and interrupts that allocate and free run in every gap.           *)
(***************************************************************************)
EXTENDS Integers, Sequences, FiniteSets

CONSTANTS Procs,
          Frames,             \* the pages that __get_free_page has, numbers from 1
          NBLOCKS,            \* the blocks of a page, for each order
          MAX_TRIES           \* MAX_GET_FREE_PAGE_TRIES

Orders == DOMAIN NBLOCKS
Nil == 0

VARIABLES k,         \* sizes[].firstfree, the page descriptors, and the frames in use
          call,      \* the kmalloc a process is in
          held       \* history: the blocks that callers have

vars == <<k, call, held>>

Unused == [order |-> 0, next |-> Nil, firstfree |-> <<>>, nfree |-> 0]
User == [pc |-> "user", order |-> 0, tries |-> 0]

Init == /\ k = [firstfree |-> [o \in Orders |-> Nil], page |-> [f \in Frames |-> Unused], used |-> {}]
        /\ call = [p \in Procs |-> User]
        /\ held = {}

-----------------------------------------------------------------------------
\* The first page with a free block has one: bh_flags are as the lists say.
HasBlock(K, o) == K.firstfree[o] # Nil /\ K.page[K.firstfree[o]].firstfree # <<>>

Block(K, o) == <<K.firstfree[o], Head(K.page[K.firstfree[o]].firstfree)>>

\* Seeded slip: a page that is full stays linked to the next one.
TakeLinked(K, o) ==
    LET f == K.firstfree[o]
        K1 == [K EXCEPT !.page[f].firstfree = Tail(@), !.page[f].nfree = @ - 1]
    IN  IF K1.page[f].nfree > 0 THEN K1 ELSE [K1 EXCEPT !.firstfree[o] = K.page[f].next]

\* The block is taken; a page without free blocks leaves the list.
Take(K, o) ==
    LET f == K.firstfree[o]
        K1 == [K EXCEPT !.page[f].firstfree = Tail(@), !.page[f].nfree = @ - 1]
    IN  IF K1.page[f].nfree > 0 THEN K1
        ELSE [K1 EXCEPT !.firstfree[o] = K.page[f].next, !.page[f].next = Nil]

\* A new page of the order, put on the list.
NewPage(K, o, f) ==
    [K EXCEPT !.used = @ \cup {f}, !.firstfree[o] = f,
              !.page[f] = [order |-> o, next |-> K.firstfree[o], firstfree |-> [i \in 1..NBLOCKS[o] |-> i],
                           nfree |-> NBLOCKS[o]]]

\* The pages of an order's list.
List(K, o) ==
    LET nth[i \in Nat] == IF i = 0 THEN K.firstfree[o] ELSE IF nth[i - 1] = Nil THEN Nil ELSE K.page[nth[i - 1]].next
    IN  {nth[i] : i \in 0..Cardinality(Frames)} \ {Nil}

\* A page is taken off its list, wherever it is, and freed.
FreePage(K, f) ==
    LET o == K.page[f].order
        K1 == IF K.firstfree[o] = f THEN [K EXCEPT !.firstfree[o] = K.page[f].next]
              ELSE [K EXCEPT !.page = [g \in Frames |-> IF g \in List(K, o) /\ K.page[g].next = f
                                                        THEN [K.page[g] EXCEPT !.next = K.page[f].next] ELSE K.page[g]]]
    IN  [K1 EXCEPT !.page[f] = Unused, !.used = @ \ {f}]

kfree_s(K, b) ==
    LET f == b[1]  o == K.page[f].order
        K1 == [K EXCEPT !.page[f].firstfree = <<b[2]>> \o @, !.page[f].nfree = @ + 1]
        K2 == IF K1.page[f].nfree = 1 /\ K.page[f].next = Nil
              THEN [K1 EXCEPT !.page[f].next = K.firstfree[o], !.firstfree[o] = f] ELSE K1
    IN  IF K2.page[f].nfree = NBLOCKS[o] THEN FreePage(K2, f) ELSE K2

-----------------------------------------------------------------------------
\* A process between two looks at the lists, with interrupts on, is not preempted.
MayRun(p) == \A q \in Procs \ {p} : call[q].pc # "again"

\* A round of the loop: a block, or __get_free_page, which may sleep.
Try(p, r) ==
    IF r.tries = 0 THEN call' = [call EXCEPT ![p] = User] /\ UNCHANGED <<k, held>>
    ELSE IF HasBlock(k, r.order)
    THEN /\ k' = Take(k, r.order)
         /\ held' = held \cup {Block(k, r.order)}
         /\ call' = [call EXCEPT ![p] = User]
    ELSE /\ call' = [call EXCEPT ![p] = [r EXCEPT !.pc = "page", !.tries = @ - 1]]
         /\ UNCHANGED <<k, held>>

kmalloc(p) == /\ call[p].pc = "user" /\ MayRun(p)
              /\ \E o \in Orders : Try(p, [pc |-> "user", order |-> o, tries |-> MAX_TRIES])

got_page(p) == /\ call[p].pc = "page" /\ MayRun(p)
               /\ \E f \in Frames \ k.used : k' = NewPage(k, call[p].order, f)
               /\ call' = [call EXCEPT ![p].pc = "again"]
               /\ UNCHANGED held

no_page(p) == /\ call[p].pc = "page" /\ MayRun(p)
              /\ call' = [call EXCEPT ![p] = User]
              /\ UNCHANGED <<k, held>>

kmalloc_again(p) == call[p].pc = "again" /\ Try(p, call[p])

kfree(p) == /\ call[p].pc = "user" /\ MayRun(p)
            /\ \E b \in held : k' = kfree_s(k, b) /\ held' = held \ {b}
            /\ UNCHANGED call

\* An interrupt: GFP_ATOMIC does not sleep, so all of it is one step.
irq_kmalloc == \E o \in Orders :
    /\ LET free == Frames \ k.used
           K == IF HasBlock(k, o) \/ free = {} THEN k ELSE NewPage(k, o, CHOOSE f \in free : TRUE)
       IN  HasBlock(K, o) /\ k' = Take(K, o) /\ held' = held \cup {Block(K, o)}
    /\ UNCHANGED call

irq_kfree == (\E b \in held : k' = kfree_s(k, b) /\ held' = held \ {b}) /\ UNCHANGED call

Next == \/ \E p \in Procs : kmalloc(p) \/ got_page(p) \/ no_page(p) \/ kmalloc_again(p) \/ kfree(p)
        \/ irq_kmalloc \/ irq_kfree

Spec == Init /\ [][Next]_vars

-----------------------------------------------------------------------------
(* No block is with two callers, lost, or both free and in use: the blocks of
   a page in use are the free ones on its list, once each, and those that
   callers have; and an order's list holds the pages with free blocks, so that
   kfree_s finds a page where it expects it. *)
BlocksExact ==
    \A f \in Frames :
        LET pg == k.page[f]  n == Len(pg.firstfree)  free == {pg.firstfree[i] : i \in 1..n}  has == {b[2] : b \in {c \in held : c[1] = f}}
        IN  IF f \notin k.used THEN has = {} /\ \A o \in Orders : f \notin List(k, o)
            ELSE /\ pg.nfree = n /\ Cardinality(free) = n
                 /\ free \cap has = {} /\ free \cup has = 1..NBLOCKS[pg.order]
                 /\ \A o \in Orders : f \in List(k, o) <=> (o = pg.order /\ n > 0)
=============================================================================
