SPECIFICATION Spec
CONSTANTS
    WriteLens = {5}
    MaxOffset = 5
    Rooms = {5, 6}
    SIZE_BOUND = 4
    HeaderLen = 1
    OffsetLen = 1
    LengthLen = 1
    LengthReserve = 2
    MaxPackets = 5
    WritesAfterEnd = FALSE
    OverflowChecks = FALSE
INVARIANT
    FreedIsAcked
CHECK_DEADLOCK FALSE
