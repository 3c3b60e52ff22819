SPECIFICATION Spec
CONSTANTS
    d1 = d1
    d2 = d2
    Cores = {c1, c2, c3}
    Domains = {d1, d2}
    RequestIds <- MCRequestIds
    PlanIds <- MCPlanIds
    NBalances = 2
    Requests <- MCRequests
    FreeValues <- MCFreeValues
    None = None
SYMMETRY CoreSymmetry
INVARIANTS
    TypeOK
    NoOvercommit
    FundsAccounted
    PlansUnique
    AckedPlansDurable
    
PROPERTIES
    ImplementsLedger
