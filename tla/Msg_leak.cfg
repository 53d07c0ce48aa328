CONSTANTS
    NULL = NULL  NOID = NOID
    Procs = {p1, p2}
    Blocks = {1, 2}
    Types = {1}
    Sizes = {1}
    MSGMNB = 2
    MaxSeq = 0
    Wanted <- Truncating
SPECIFICATION Spec
INVARIANT NoBlockLost
CHECK_DEADLOCK FALSE
