SPECIFICATION Spec
CONSTANTS
    Cores = {c1, c2}
    None = None
    Assets = {"BTC", "USD"}
    Results = {done, refused}
    MaxTime = 2
    MaxAudits = 3
    Tolerance = 2
    OrderVersions = 6
    ExecutionVersions = 4
    Intents = {i1, i2}
    VenueOf <- MCVenueOf
    Ordered <- MCOrdered
    OrderIds = {o1, o2}
    QueryIds = {q1, q2}
    Trades <- MCTrades
    Plans = {p1}
    Limits <- MCLimits
    Evaluations <- MCEvaluations
    Requests <- MCRequests
    Events <- MCEvents
    Runs <- MCRuns
    Snapshots <- MCSnapshots
    Holdings <- MCHoldings
    Times = {1, 2}
    Retentions = {0, 1}
    MaxRecords = 3
    i1 = i1
    i2 = i2
    venue = venue
    o1 = o1
    o2 = o2
    q1 = q1
    q2 = q2
    p1 = p1
SYMMETRY MCSymmetry
INVARIANTS
    OrderRowsExplained
    SpendingIsPlanned
    DecisionsExplainPlan
    RequestsBound
    ResultsTraced
    LedgerHolds
    RunsSettled
PROPERTIES
    ImplementsProtocol
    ExpiredIsFinal
CHECK_DEADLOCK FALSE
