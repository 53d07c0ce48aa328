SPECIFICATION Spec
CONSTANTS
    NULL = NULL
    Views = {"trace"}
    Users = {a, b, c}
    Shell = a
    Tracer = b
    Leaders = {b, c}
    KillStates = {"INTERRUPTIBLE", "STOPPED", "ZOMBIE"}
    Task1 = task1
    GETTY = getty
PROPERTIES DeadStaysDead
CHECK_DEADLOCK FALSE
