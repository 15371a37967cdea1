SPECIFICATION FairSpec
CONSTANTS
    Process = {cli, console}
    Window = {1, 2}
    Plans <- SmallBudgets
    Concurrency = 2
    MaxAttempts = 2
    Inherited = FALSE
    MaxStarts = 3
    MaxFaults = 1
INVARIANTS RecordWhole
PROPERTIES BuysOnlyMissing RunEnds
CHECK_DEADLOCK FALSE
