SPECIFICATION TimeSpec
CONSTANTS
    a = a  b = b  Idle = idle
    Tasks = {a, b}
    Pos <- Pos2
    MaxPriority = 2
    Priorities = {1}
    Signalled = {a}
    AlarmValues = {}
    Timeouts = {1}
    MaxTicks = 2
    ULongMax = 99
INVARIANTS OnlyRunnableRuns AlarmKeepsTime CounterBounded
PROPERTIES AlarmPosted NobodyStarves
