SPECIFICATION FairSpec
CONSTANTS
    Parts = {"observation", "analysis"}
    MaxSessions = 2
    Pairs = 2
    MaxEvents = 1
    MaxExits = 1
    MaxTurns = 2
    Capacity = 1
    None = None
INVARIANTS
    
    RuntimesAccountedFor

    
    
CHECK_DEADLOCK FALSE
