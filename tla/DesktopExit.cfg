SPECIFICATION FairSpec
CONSTANTS
    Parts = {"observation"}
    MaxSessions = 2
    Pairs = 2
    MaxEvents = 1
    MaxExits = 1
    MaxTurns = 2
    Capacity = 1
    None = None
INVARIANTS
    ExitFlushes
CHECK_DEADLOCK FALSE
