SPECIFICATION Spec
CONSTANTS
    p1 = p1  p2 = p2  d1 = d1  d2 = d2  tpA = tpA  tpB = tpB  rider = rider
    Anonymous = Anonymous  NoRssi = NoRssi  NoUnc = NoUnc
    Producers = {p1, p2}
    Detectors = {d1, d2}
    TimingPoints = {tpA, tpB}
    Subjects = {rider}
    Window = 1
    U64Max = 2
    Sessions = {s1, s2}
    Plan <- PlanApart
    SharedIds = FALSE
    LateErrors = FALSE
    Retention = TRUE
    Rewind = FALSE
    MaxFaults = 1
INVARIANTS
    TypeOK
    GateNeverAhead
    GateCoversLog
    RetainedOrdered
    GapsMeteredOnce
    CrossingsPartition
CHECK_DEADLOCK FALSE
