SPECIFICATION Spec
CONSTANTS
    ProgramNames <- MCProgramNames
    Rounds <- MCRounds
    PingPings = 10
PROPERTY CloseIsHeard
CHECK_DEADLOCK FALSE
