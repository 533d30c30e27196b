SPECIFICATION FairSpec
CONSTANTS
    WindowBits = 2
    Setups <- LateSetups
    MAX_ACK_BLOCKS = 2
INVARIANT
    AckScheduled
CHECK_DEADLOCK FALSE
