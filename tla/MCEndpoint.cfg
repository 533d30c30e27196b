CONSTANTS
    Addrs = {a1, a2, a3}
    Handles = {h1, h2}
    None = none
    ExitOnIdle = TRUE
SPECIFICATION FairSpec
INVARIANT ConnectionsRouted
PROPERTIES EndedCollected
CHECK_DEADLOCK FALSE
