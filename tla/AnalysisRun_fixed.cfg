SPECIFICATION Spec
CONSTANTS
    Process = {cli}
    Window = {1, 2, 3}
    Plans <- OnePlan
    Concurrency = 2
    MaxAttempts = 2
    Inherited = TRUE
    MaxStarts = 3
    MaxFaults = 3
INVARIANTS TypeOK
PROPERTIES Implements NewestStays
CHECK_DEADLOCK FALSE
