SPECIFICATION Spec
CONSTANTS
    None = None
    Batches = {1, 2}
    Sizes = {1, 2}
    MaxEntries = 3
    Readers = {"c1", "d1"}
    Clients = {"c1"}
    Limits = {1, 9}
    MAX_EVENTS_LIMIT = 2
    TokenLists <- MCTokenLists
    TokenOf <- MCTokenOf
    MaxRequests = 2
    MaxReloads = 1
INVARIANTS
    ReadsEverything
    CaughtUp
PROPERTIES
    ImplementsPort
    StreamMovesOn
    EvictedStreamEnds
CHECK_DEADLOCK FALSE
