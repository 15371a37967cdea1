SPECIFICATION Spec
CONSTANTS
    Process = {cli}
    Window = {1, 2, 3}
    Plans <- TwoBudgets
    Concurrency = 2
    MaxAttempts = 2
    Inherited = FALSE
    MaxStarts = 2
    MaxFaults = 1
PROPERTIES PurchaseKept
CHECK_DEADLOCK FALSE
