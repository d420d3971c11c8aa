SPECIFICATION Spec
CONSTANTS
    ByteBits = 2
    LengthBytes = 2
    POLY = 3
    max_frame_size = 3
    Payloads <- MCPayloads
    MaxUnits = 2
INVARIANTS
    DecodesAsSent
    PendingExact
    BufferBounded
CHECK_DEADLOCK FALSE
