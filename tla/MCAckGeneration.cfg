SPECIFICATION FairSpec
CONSTANTS
    WindowBits = 2
    Setups <- MCSetups
    MAX_ACK_BLOCKS = 2
INVARIANTS
    AcksOnlyReceived
    AckTriggered
PROPERTIES
    GapReportedAtOnce
    OwedAckSent
CHECK_DEADLOCK FALSE
