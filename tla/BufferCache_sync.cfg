CONSTANTS
    p1 = p1  p2 = p2  p3 = p3
    Procs = {p1, p2, p3}
    Buffers = {b1, b2, b3, b4}
    Blocks = {1, 2, 3, 4, 5}
    NULL = NULL
    Reads <- ReadsApart
    Syncers = {p1}
    Waits = {TRUE}
    Changed = {5}
    OthersBusy = FALSE
    MaxWrites = 1
    MaxErrors = 0
SPECIFICATION Spec
PROPERTY SyncDone
SYMMETRY Symmetry
