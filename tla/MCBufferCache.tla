---------------------------- MODULE MCBufferCache ----------------------------
EXTENDS BufferCache, TLC

CONSTANTS p1, p2, p3

\* p1 only calls fsync, and the others read.
ReadsApart == (p1 :> {}) @@ (p2 :> {2, 3, 4, 5}) @@ (p3 :> {1, 3})

\* Buffers are only compared.
Symmetry == Permutations(Buffers)
=============================================================================
