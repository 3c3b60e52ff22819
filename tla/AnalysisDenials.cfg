SPECIFICATION FairSpec
CONSTANTS
    Parts = {"turn"}
    MaxTurns = 2
    MaxToolCalls = 1
    MaxMessages = 3
    Asks <- TwoAsks
    Level = "ask"
    MaxRequests = 5
    MaxLines = 1
    MaxItems = 1
    MaxChunks = 3
    MaxNotices = 4
    TextTail = 2
    None = None
INVARIANTS
    DenialsAreTheOwners
CHECK_DEADLOCK FALSE
