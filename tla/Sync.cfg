CONSTANTS
    Procs = {a, b, c}
    None = None
    w1 = w1  w2 = w2  w3 = w3  w4 = w4  t1 = t1  t2 = t2  t3 = t3
    Queues = {p, q}
    Entries = {w1, w2, w3, w4}
    Tasks = {t1, t2, t3}
    Owner <- Owner4
    Selectors = {s}
SPECIFICATION SyncSpec
INVARIANTS MutualExclusion NoLostWakeup  QueuesExact NeverEarly
PROPERTIES WakeUpWakes SomeoneEnters ImplementsDeadlines TimersFire
