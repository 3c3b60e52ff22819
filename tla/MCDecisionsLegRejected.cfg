SPECIFICATION Spec
CONSTANTS
    Parts = {"leg"}
    None = None
    Books <- MCBooks
    Quantity = 2
    Strategy <- MCStrategy
    Specs <- MCSpecs
    Eligible = {"binance", "bybit"}
    Answers <- MCAnswers
    FallbackRate = 10
    Bps = 10000
    MaxAge = 2
    MaxSkew = 1
    MaxFeeAge = 2
    MaxTime = 3
    Corrupt = Corrupt
    MaxRuns = 2
    MaxOrdinal = 3
    QueueCapacity = 1
    MaxFailures = 2
    TornWrites = FALSE
    Unit = 4
    Inputs <- MCInputs
    Simulations <- MCSimulations
    Contents <- MCContents
    r1 = r1
    r2 = r2
    x = x
    y = y
    Target = 2
    MaxClock = 2
    MaxRows = 3
    PageSize = 1
    Day = 2
    Dense = 2
    Funds = 1
SYMMETRY RunSymmetry
INVARIANTS
    RejectedLegIsEmpty
CHECK_DEADLOCK FALSE
