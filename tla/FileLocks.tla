------------------------------ MODULE FileLocks ------------------------------
(***************************************************************************)
(* The record locks of one file, fs/locks.c: fcntl's F_SETLK and F_SETLKW  *)
(* over the list i_flock of entries from a fixed table.  An owner is a     *)
(* process and a descriptor.  lock_it does not sleep, so a call is atomic  *)
(* but for the wait of F_SETLKW, on the fl_wait of the entry in the way.   *)
(*                                                                         *)
(* off_t is a signed type of OFFSET_MAX + 1 nonnegative values that wraps. *)
(***************************************************************************)
EXTENDS Integers, Sequences, FiniteSets, SequencesExt

CONSTANTS Owners,
          Slots,        \* the NR_FILE_LOCKS entries of file_lock_table
          OFFSET_MAX,
          NULL,
          Requests      \* the pairs <<l_start, l_len>> that callers pass

VARIABLES tab,       \* file_lock_table
          list,      \* i_flock
          free,      \* file_lock_free_list
          waits      \* the call of an owner that waits, and on which entry

vars == <<tab, list, free, waits>>

Offsets == 0..OFFSET_MAX
Types == {"unlck", "rdlck", "wrlck"}

NoCall == [on |-> NULL, type |-> "unlck", start |-> 0, end |-> 0]
NoOwner == "no owner"
Entry(o, t, s, e) == [owner |-> o, type |-> t, start |-> s, end |-> e]

\* fcntl_init_locks
Init == /\ tab = [s \in Slots |-> Entry(NoOwner, "unlck", 0, 0)]
        /\ list = <<>>
        /\ free = SetToSeq(Slots)
        /\ waits = [o \in Owners |-> NoCall]

\* copy_flock: a length of 0, or one that leads beyond OFFSET_MAX, is "to the end"
CopiedEnd(start, len) == IF len = 0 \/ start + len - 1 > OFFSET_MAX THEN OFFSET_MAX
                                                                    ELSE start + len - 1

overlap(a, b) == a.end >= b.start /\ b.end >= a.start


conflict(c, fl) == /\ c.owner # fl.owner
                   /\ overlap(c, fl)
                   /\ \/ c.type = "rdlck" /\ fl.type # "rdlck"
                      \/ c.type = "wrlck"

\* x + 1 as off_t computes it
Plus1(x) == IF x = OFFSET_MAX THEN -(OFFSET_MAX + 1) ELSE x + 1

-----------------------------------------------------------------------------
(* lock_it.  Its locals are a record: the request c, the slot it lives in  *)
(* once it has one (NULL: still the caller's copy), position pos in the list, *)
(* added, left and right;          woken collects the entries whose       *)
(* fl_wait was woken.                                                      *)

\* Seeded slips: the entry does not go back to the free list; its waiters are forgotten.
FreedLost(s) == LET fl == s.list[s.pos] IN
    [s EXCEPT !.tab[fl] = Entry(NoOwner, "unlck", 0, 0),
              !.list = RemoveAt(s.list, s.pos),
              !.woken = @ \cup {fl}]

FreedQuietly(s) == LET fl == s.list[s.pos] IN
    [s EXCEPT !.tab[fl] = Entry(NoOwner, "unlck", 0, 0),
              !.list = RemoveAt(s.list, s.pos),
              !.free = <<fl>> \o @]

\* free_lock(before)
Freed(s) == LET fl == s.list[s.pos] IN
    [s EXCEPT !.tab[fl] = Entry(NoOwner, "unlck", 0, 0),
              !.list = RemoveAt(s.list, s.pos),
              !.free = <<fl>> \o @,
              !.woken = @ \cup {fl}]

\* alloc_lock(before, e)
Alloc(s, e) == [s EXCEPT !.tab[Head(s.free)] = e,
                         !.list = InsertAt(s.list, s.pos, Head(s.free)),
                         !.free = Tail(@)]

NextLock(s) == [s EXCEPT !.pos = @ + 1]

\* One lock from the lower start to the higher end of both.
Merged(s, fl) ==
    LET c == [s.c EXCEPT !.start = IF s.tab[fl].start < @ THEN s.tab[fl].start ELSE @,
                         !.end = IF s.tab[fl].end > @ THEN s.tab[fl].end ELSE @]
    IN  [s EXCEPT !.c = c, !.tab[fl] = c,
                  !.tab[IF s.slot = NULL THEN fl ELSE s.slot] = c]

\* Seeded slip: only overlapping locks are merged, adjacent ones stay apart.
ApartStrictly(fl, c) == fl.start > c.end

\* fl lies entirely above c, and is not adjacent.
Apart(fl, c) == fl.start > Plus1(c.end)

RECURSIVE Walk(_)
Walk(s) ==
    IF s.pos > Len(s.list) \/ s.tab[s.list[s.pos]].owner # s.c.owner THEN s
    ELSE LET fl == s.list[s.pos]
             old == s.tab[fl]
         IN
      IF s.c.type = old.type
      THEN IF old.end < s.c.start - 1 THEN Walk(NextLock(s))
           ELSE IF Apart(old, s.c) THEN s
           ELSE IF s.added THEN Walk(Freed(Merged(s, fl)))
           ELSE Walk(NextLock([Merged(s, fl) EXCEPT !.slot = fl, !.added = TRUE]))
      ELSE IF old.end < s.c.start THEN Walk(NextLock(s))
      ELSE IF old.start > s.c.end THEN s
      ELSE LET t == [s EXCEPT !.added = @ \/ s.c.type = "unlck",
                              !.left = IF old.start < s.c.start THEN fl ELSE @]
           IN  IF old.end > s.c.end THEN [t EXCEPT !.right = fl]
               ELSE IF old.start < s.c.start THEN Walk(NextLock(t))
               ELSE IF t.added THEN Walk(Freed(t))
               ELSE Walk(NextLock([t EXCEPT !.tab[fl] = s.c, !.slot = fl, !.added = TRUE,
                                            !.woken = @ \cup {fl}]))

\* The first entry of the owner of c, or the end of the list.
FirstOf(o) == LET mine == {i \in 1..Len(list) : tab[list[i]].owner = o}
              IN  IF mine = {} THEN Len(list) + 1 ELSE CHOOSE i \in mine : \A j \in mine : i <= j

\* Seeded slip: the upper part is lost when a lock is cut in two.
TrimmedLow(s) == [s EXCEPT !.tab = [x \in Slots |-> IF x = s.left THEN [@[x] EXCEPT !.end = s.c.start - 1] ELSE @[x]]]

\* right->fl_start = caller->fl_end + 1; left->fl_end = caller->fl_start - 1
Trimmed(s) == [s EXCEPT !.tab = [x \in Slots |->
                  [@[x] EXCEPT !.start = IF x = s.right THEN Plus1(s.c.end) ELSE @,
                               !.end = IF x = s.left THEN s.c.start - 1 ELSE @]]]

\* The outcome of lock_it: the new state, or the old one with an error.
lock_it(c) ==
    LET s0 == [c |-> c, slot |-> NULL, pos |-> FirstOf(c.owner), added |-> FALSE, left |-> NULL, right |-> NULL,
               tab |-> tab, list |-> list, free |-> free, woken |-> {}]
        s == Walk(s0)
        new == ~s.added
        need == (IF new THEN 1 ELSE 0) + (IF s.right # NULL /\ s.left = s.right THEN 1 ELSE 0)
        a == IF new THEN Alloc(s, s.c) ELSE s
        b == IF s.right # NULL /\ s.left = s.right
               THEN [Alloc(a, s.tab[s.right]) EXCEPT !.left = Head(a.free)] ELSE a
    IN  IF (new /\ c.type = "unlck") \/ need > Len(s.free) THEN s0 ELSE Trimmed(b)

-----------------------------------------------------------------------------
\* The sleepers of the entries in w are runnable.
WokenOf(w) == [o \in Owners |-> IF waits[o].on \in w THEN [waits[o] EXCEPT !.on = "woken"] ELSE waits[o]]

Apply(o, s) == /\ tab' = s.tab /\ list' = s.list /\ free' = s.free
               /\ waits' = [WokenOf(s.woken) EXCEPT ![o] = NoCall]

InTheWay(c) == {i \in 1..Len(list) : conflict(c, tab[list[i]])}
First(is) == CHOOSE i \in is : \A j \in is : i <= j

\* fcntl_setlk from repeat: on.
SetTry(c, wait) ==
    IF c.type = "unlck" \/ InTheWay(c) = {} THEN Apply(c.owner, lock_it(c))
    ELSE /\ waits' = [waits EXCEPT ![c.owner] =
                        IF wait THEN [on |-> list[First(InTheWay(c))], type |-> c.type,
                                      start |-> c.start, end |-> c.end]
                                ELSE NoCall]
         /\ UNCHANGED <<tab, list, free>>

\* F_SETLK, or F_SETLKW if wait
fcntl_setlk(o, t, r, wait) == /\ waits[o] = NoCall
                              /\ SetTry(Entry(o, t, r[1], CopiedEnd(r[1], r[2])), wait)

\* The sleep is over: look again.
setlk_woken(o) == /\ waits[o].on = "woken"
                  /\ SetTry(Entry(o, waits[o].type, waits[o].start, waits[o].end), TRUE)

\* A signal ends the call: -ERESTARTSYS.
setlk_signal(o) == /\ waits[o] # NoCall
                   /\ waits' = [waits EXCEPT ![o] = NoCall]
                   /\ UNCHANGED <<tab, list, free>>

RECURSIVE FreeWhile(_, _)
FreeWhile(s, o) == IF s.pos > Len(s.list) \/ s.tab[s.list[s.pos]].owner # o THEN s
                                                                          ELSE FreeWhile(Freed(s), o)

\* The descriptor is closed.
fcntl_remove_locks(o) ==
    /\ waits[o] = NoCall
    /\ Apply(o, FreeWhile([tab |-> tab, list |-> list, free |-> free, pos |-> FirstOf(o), woken |-> {}], o))

Next == \E o \in Owners :
            \/ \E t \in Types, r \in Requests, wait \in BOOLEAN : fcntl_setlk(o, t, r, wait)
            \/ setlk_woken(o) \/ setlk_signal(o) \/ fcntl_remove_locks(o)

Spec == Init /\ [][Next]_vars

-----------------------------------------------------------------------------
Listed == {list[i] : i \in 1..Len(list)}

\* The list is kept as lock_it and fcntl_remove_locks rely on: the entries of an owner
\* together, in ascending order, disjoint, and merged where they touch with one type. No
\* entry is lost or in two places: each is in the list, with an owner, or in the free
\* list, without (else alloc_lock and free_lock panic).
ListSorted ==
    /\ \A i, j \in 1..Len(list) : i < j /\ tab[list[i]].owner = tab[list[j]].owner =>
          LET a == tab[list[i]]  b == tab[list[j]] IN
          /\ \A k \in i..j : tab[list[k]].owner = a.owner
          /\ a.end < b.start
          /\ a.type = b.type => a.end + 1 < b.start
    /\ \A s \in Listed : tab[s].start <= tab[s].end /\ tab[s].type # "unlck"
    /\ Len(list) + Len(free) = Cardinality(Slots)
    /\ Listed \cup {free[i] : i \in 1..Len(free)} = Slots
    /\ \A s \in Slots : s \in Listed <=> tab[s].owner # NoOwner

\* A process in F_SETLKW sleeps on an entry in use, of another owner: nobody waits for
\* a lock that is already gone.
WaitsForHolder == \A o \in Owners : waits[o].on \in Slots =>
                     waits[o].on \in Listed /\ tab[waits[o].on].owner # o

\* A process in F_SETLKW sleeps only while some lock conflicts with its request.
WaitsForConflict == \A o \in Owners : waits[o].on \in Slots =>
                        InTheWay(Entry(o, waits[o].type, waits[o].start, waits[o].end)) # {}

\* What the list means byte by byte.
Held == [o \in Owners |-> [b \in Offsets |->
            LET over == {s \in Listed : tab[s].owner = o /\ b \in tab[s].start..tab[s].end}
            IN  IF over = {} THEN "unlck" ELSE tab[CHOOSE s \in over : TRUE].type]]

Bytewise == INSTANCE ByteLocks WITH Bytes <- Offsets, held <- Held

=============================================================================
