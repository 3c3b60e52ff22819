SPECIFICATION FairSpec
CONSTANTS
    Callers = {c1, c2}
    Domains = {d1, d2}
    RequestIds = {1, 2}
    PlanIds = {1, 2, 3}
    NBalances = 2
    Requests <- MCRequests
    FreeValues = {3}
    Processes = {p1, p2}
    Sessions = {s1, s2, s3}
    PoolOf <- MCPoolOf
    Cores = {c1, c2, c3}
    Home <- MCHome
    Nodes = {n1, n2}
    MaxTime = 3
    MaxTokens = 3
    Timeout = 1
    Ttl = 2
    CallerHome <- MCCallerHome
    Latest <- MCLatest
    DropVersion = 3
    Legacies <- MCLegacies
    MaxFaults = 1
    d1 = d1
    d2 = d2
    p1 = p1
    p2 = p2
    s1 = s1
    s2 = s2
    s3 = s3
    c1 = c1
    c2 = c2
    c3 = c3
    None = None

    
PROPERTIES
    ImplementsWriterLock
    WaitsEnd
    DomainBecomesFree
