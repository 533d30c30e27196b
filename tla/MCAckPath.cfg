SPECIFICATION PathSpec
CONSTANTS
    WindowBits = 2
    PacketNumbers <- MCPacketNumbers
    Windows <- MCWindows
    FirstNumbers <- MCFirstNumbers
    MaxSent = 5
    MaxAcks = 2
    MAX_ACK_BLOCKS = 2
INVARIANTS
    FilterIsExact
    DecodedIsSent
    AckedWasReceived
    RangeSetsExact
    AckFrameExact
CHECK_DEADLOCK FALSE
