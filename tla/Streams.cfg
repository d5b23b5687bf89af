SPECIFICATION Spec
CONSTANTS
    Base = 2
    MaxDigits = 3
    MaxPacketBytes = 4
    Bytes <- MCBytes
    MinBody <- MCMinBody
    MaxFrame = 3
    MaxStream = 9
INVARIANTS
    TypeOK
    HandledAsSent
    RelayedAsSent
    BufferIsBounded
CHECK_DEADLOCK FALSE
