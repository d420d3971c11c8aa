SPECIFICATION Spec
CONSTANTS
    s = s
    x = x
    Sims = {s}
    Scripted = {x}
    Alphabet <- MCAlphabet
    ProducerId <- MCProducerId
    Token <- MCToken
    MaxFrames = 2
    Count = 1
    MaxLosses = 1
    Transport = "tcp"
    Tls = TRUE
    allowed = {"good"}
    Outcomes = {"stored", "error"}
    MAX_SERIES_PER_METRIC = 2
    PROTOCOL_VERSION = 1
INVARIANTS
    NumbersContiguous
    GaugeExact
    CountedOnce
    TruncationReported
    OnlyAdmitted
    CleanMeansAll
CHECK_DEADLOCK FALSE
