SPECIFICATION SubSpec
CONSTANTS
    MaxAppends = 3
    Sizes <- One
    MaxRecords = 2
    Evicting = TRUE
    Cancels = FALSE
    MaxFaults = 1
    Froms = {1}
    None = None
INVARIANTS
    DeliveredExact
    ErrorsJustified
PROPERTIES
    GetsNext
    EvictedIsTold
CHECK_DEADLOCK FALSE
