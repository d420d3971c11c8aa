SPECIFICATION Spec
CONSTANTS
    MaxAppends = 3
    Sizes <- OneOrTwo
    MaxRecords = 3
    Evicting = TRUE
    Cancels = TRUE
    MaxFaults = 3
    None = None
INVARIANTS
    TypeOK
    OffsetsArePositions
    ReadRangeExact
    AlwaysOpens
    

    
CHECK_DEADLOCK FALSE
