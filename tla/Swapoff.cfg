SPECIFICATION SwapoffSpec
CONSTANTS
    NR_TASKS = 3
    NrPages = 1
    Frames = {1, 2}
    NrSwap = 2
    Values = {1, 2}
INVARIANTS SwapGone
CHECK_DEADLOCK FALSE
