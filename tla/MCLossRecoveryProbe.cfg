CONSTANTS
    DataItems = {d1}
    Hello = hello
    MIN_RTT = 1
    TIMER_GRANULARITY = 1
    MaxPackets <- MCMaxPackets
    Side = "client"
    AckDelays = {0}
    MaxTime = 4
    MaxInitial = 1
    MaxHandshake = 0
    MaxData = 2
    PeerSpaces = {"Initial", "Data"}
    MaxBurst = 1
SPECIFICATION Spec
PROPERTY ProbeForcesRetransmission
CHECK_DEADLOCK FALSE
