CONSTANTS
    Owners = {o1, o2}
    Slots = {s1, s2, s3, s4}
    OFFSET_MAX = 3
    NULL = NULL
    Requests <- Below
SPECIFICATION Spec
INVARIANT WaitsForConflict
CHECK_DEADLOCK FALSE
