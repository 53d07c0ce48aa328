----------------------------- MODULE MCFileLocks -----------------------------
EXTENDS FileLocks

\* Every range that ends below OFFSET_MAX, where fl_end + 1 wraps and locks are not merged.
Below == {<<s, l>> \in Offsets \X (1..OFFSET_MAX) : s + l - 1 < OFFSET_MAX}

\* Entries and owners are only compared.
Symmetry == Permutations(Slots) \cup Permutations(Owners)
=============================================================================
