SPECIFICATION Spec
CONSTANTS
    ProgramNames <- MCProgramNames
    Rounds <- MCRounds
    PingPings = 10
INVARIANTS  ConnectedFirst
PROPERTIES  ClosedDrains
CHECK_DEADLOCK FALSE
