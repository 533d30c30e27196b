CONSTANTS
    Side = "client"
    DataItems = {d1}
    Hello = hello
    MIN_RTT = 1
    TIMER_GRANULARITY = 1
    AckDelays = {2}
    MaxTime = 2
    MaxInitial = 1
    MaxHandshake = 1
    MaxData = 3
    MaxPackets <- MCMaxPackets
    PeerSpaces = {"Handshake", "Data"}
    MaxBurst = 1
SPECIFICATION FairSpec
INVARIANTS PacketsAccountedOnce FramesConserved InFlightMatches OvertakenHasLossTime TimerArmedWhileInFlight ClosedHasNoLossTimer
PROPERTIES OvertakenResolved ImplementsFrameDelivery
CHECK_DEADLOCK FALSE
