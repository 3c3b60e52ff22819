SPECIFICATION FairSpec
CONSTANTS
    Prices = {p1, p2}
    MaxId = 3
    MaxBuffered = 2
    MaxGeneration = 2
    MaxOffers = 3
    None = None
INVARIANTS
    BookIsVenueBook
    FramesAccounted
PROPERTIES
    
    WorkIsFinished
CHECK_DEADLOCK FALSE
