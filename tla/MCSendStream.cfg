SPECIFICATION Spec
CONSTANTS
    WriteLens = {1, 2, 3}
    MaxOffset = 4
    Rooms = {4, 5, 9}
    SIZE_BOUND = 4
    HeaderLen = 1
    OffsetLen = 1
    LengthLen = 1
    LengthReserve = 2
    MaxPackets = 5
    WritesAfterEnd = FALSE
    OverflowChecks = FALSE
INVARIANTS
    AllAckedDrained
    FinishReported
    WrittenAccounted
    QueuedWhilePending
    FinalSizesAgree
CHECK_DEADLOCK FALSE
