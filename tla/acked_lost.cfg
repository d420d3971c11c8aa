SPECIFICATION Spec
CONSTANTS
    MaxAppends = 3
    Sizes <- OneOrTwo
    MaxRecords = 3
    Evicting = TRUE
    Cancels = FALSE
    MaxFaults = 3
    None = None
INVARIANTS
    AckedNeverLost
CHECK_DEADLOCK FALSE
