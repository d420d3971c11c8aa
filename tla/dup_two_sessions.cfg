SPECIFICATION Spec
CONSTANTS
    p1 = p1  p2 = p2  d1 = d1  d2 = d2  tpA = tpA  tpB = tpB  rider = rider
    Anonymous = Anonymous  NoRssi = NoRssi  NoUnc = NoUnc
    Producers = {p1}
    Detectors = {d1}
    TimingPoints = {tpA}
    Subjects = {rider}
    Window = 1
    U64Max = 8
    Sessions = {s1, s2}
    Plan <- PlanSolo
    SharedIds = TRUE
    LateErrors = FALSE
    Retention = FALSE
    Rewind = TRUE
    MaxFaults = 0
INVARIANTS
    NoDuplicates
CHECK_DEADLOCK FALSE
