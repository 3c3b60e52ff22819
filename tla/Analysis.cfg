SPECIFICATION FairSpec
CONSTANTS
    Parts = {"turn", "client", "live"}
    MaxTurns = 3
    MaxToolCalls = 1
    MaxMessages = 2
    Asks <- TwoAsks
    Level = "ask"
    MaxRequests = 5
    MaxLines = 1
    MaxItems = 1
    MaxChunks = 3
    MaxNotices = 4
    TextTail = 2
    None = None
INVARIANTS
    GrantedByOwner
    
    
    NoProcessLeft

    
CHECK_DEADLOCK FALSE
