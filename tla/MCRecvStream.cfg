SPECIFICATION Spec
CONSTANTS
    StreamLen = 5
    Frames <- AnyFrames
    PeerInitiated = TRUE
    OverflowChecks = FALSE
    MaxLengths = {1, 5}
    MaxEvents = 3
INVARIANTS
    DeliveredIsPrefix
    FinishedComplete
    NoFinalSizeError
    UnreadKept
    NoLostWakeup
CHECK_DEADLOCK FALSE
