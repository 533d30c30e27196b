SPECIFICATION Spec
CONSTANTS
    INITIAL_MTU = 1
    InitialPackets = 3
    MaxBurst = 2
    MaxPackets = 6
    WriteSizes = {2,4}
    MaxData = 6
    MaxTime = 3
INVARIANTS
    WindowSound
    HalvedAtMostOnce
    InFlightExact
    BurstBounded
PROPERTIES
    CreditSpent
CHECK_DEADLOCK FALSE
