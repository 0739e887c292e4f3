CONSTANTS
    u1 = u1
    u2 = u2
    d1 = d1
    d2 = d2
    Url = {u1, u2}
    Domain = {d1, d2}
    Candidates <- MCCandidates
    Generations = {g1, g2}
    Inventories = {i1}
    Policies = {pol1, pol2}
    SetupRequests = {setup1}
    UpdateRequests = {update1}
    ManualRefreshes = {}
    Scheduler = scheduler
    BackendVolatile = TRUE
    None = None
    Empty = Empty
    Mixed = Mixed
SPECIFICATION FairSpec
PROPERTIES
    RequestsReturn
    Convergence
