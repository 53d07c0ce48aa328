CONSTANTS
    Readers = {r, x}
    Writers = {w, x}
    Openers = {p1, p2, p3}
    none = none
SPECIFICATION Spec
INVARIANTS DataIntact AtomicWrites SleepersHaveReason CountsExact
PROPERTIES OpenKept EndSeen
