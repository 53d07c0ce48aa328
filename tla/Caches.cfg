CONSTANTS
    NULL = NULL
    i1 = i1  i2 = i2  i3 = i3  p1 = p1  p2 = p2
    Users = {b0, b1, b2}
    Syncer = b0
    Buffers = {f1, f2}
SPECIFICATION Spec
INVARIANTS OnlyOne NothingLost RefsExact SleepersHaveReason StreamIntact
PROPERTIES SyncUndisturbed
SYMMETRY Symmetry
