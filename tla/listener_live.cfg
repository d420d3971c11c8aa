SPECIFICATION Spec
CONSTANTS
    s = s
    x = x
    Sims = {s}
    Scripted = {x}
    Alphabet <- FewerEnvelopes
    ProducerId <- MCProducerId
    Token <- MCToken
    MaxFrames = 2
    Count = 1
    MaxLosses = 0
    Transport = "unix"
    Tls = FALSE
    allowed = {"good"}
    Outcomes = {"stored", "seen"}
    MAX_SERIES_PER_METRIC = 2
    PROTOCOL_VERSION = 1
PROPERTIES
    ImplementsStream
    ConnectAnswered
    ShutdownCompletes
CHECK_DEADLOCK FALSE
