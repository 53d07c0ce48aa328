SPECIFICATION Spec
CONSTANTS
    NULL = NULL
    Views = {"trace", "jobs", "clones", "pages", "swap", "kmalloc"}
    Users = {a, b, c}
    Shell = a
    Tracer = b
    Leaders = {b, c}
    KillStates = {"INTERRUPTIBLE", "STOPPED"}
    Task1 = task1
    GETTY = getty
INVARIANTS TreeAudited WaiterWoken MemoryKept CountsExact
PROPERTIES OrphansContinued
CHECK_DEADLOCK FALSE
