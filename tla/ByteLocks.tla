------------------------------ MODULE ByteLocks ------------------------------
(***************************************************************************)
(* What record locks promise, byte by byte: an owner holds each byte of    *)
(* the file shared, exclusively or not at all.                             *)
(***************************************************************************)
EXTENDS Naturals

CONSTANTS Owners, Bytes

VARIABLE held       \* held[o][b]: the lock of owner o on byte b

Types == {"unlck", "rdlck", "wrlck"}

Init == held = [o \in Owners |-> [b \in Bytes |-> "unlck"]]

\* The owners q and o may not hold one byte unless both share it.
Allowed(o, t, b) == \A q \in Owners \ {o} :
                        \/ t = "unlck" \/ held[q][b] = "unlck"
                        \/ t = "rdlck" /\ held[q][b] = "rdlck"

\* One call of o gives all the bytes from first to last the lock t.
Set(o, t, first, last) ==
    /\ \A b \in Bytes : first <= b /\ b <= last => Allowed(o, t, b)
    /\ held' = [held EXCEPT ![o] = [b \in Bytes |-> IF first <= b /\ b <= last THEN t ELSE @[b]]]

Next == \E o \in Owners, t \in Types, first, last \in Bytes : Set(o, t, first, last)

Spec == Init /\ [][Next]_held
=============================================================================
