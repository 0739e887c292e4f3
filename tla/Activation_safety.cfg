CONSTANTS
    u1 = u1
    u2 = u2
    d1 = d1
    d2 = d2
    Url = {u1, u2}
    Domain = {d1, d2}
    Candidates <- MCCandidates
    Generations = {g1, g2, g3}
    Inventories = {i1, i2}
    Policies = {pol1}
    SetupRequests = {setup1, setup2}
    UpdateRequests = {update1}
    ManualRefreshes = {}
    Scheduler = scheduler
    BackendVolatile = FALSE
    None = None
    Empty = Empty
    Mixed = Mixed
SPECIFICATION Spec
SYMMETRY Symmetry
INVARIANTS
    PublishedIsDurable
    FailureChangesNothing
    RestoreAimsAtDurable
    RefreshUsesDurable
    ReadyMeansPublished
    NoStuckProgress
    IInv
PROPERTIES
    FollowsSetupLifecycle
    DurableWasReconciled
