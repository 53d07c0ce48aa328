CONSTANTS
    NULL = NULL  NOID = NOID
    Views = {"shm", "msg", "msg2", "sem1", "sem2"}
    Procs = {p1, p2, p3}
    SHMMNI = 2
    SHMALL = 9
    Keys = {k1}
    SemProcs = {s1, s2}
    SEMVMX = 1
SPECIFICATION Spec
INVARIANTS AttachedAlive ListsExact UndoConserved SleepersHaveReason
PROPERTIES OnlyRemovedGoes
SYMMETRY Symmetry
CHECK_DEADLOCK FALSE
