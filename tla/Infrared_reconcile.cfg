CONSTANTS
    c1 = c1
    c2 = c2
    Server = {1, 2}
    Content = {c1, c2}
    Invalid = Invalid
    Plans <- MCPlans
    Tampering = TRUE
    NoFile = NoFile
SPECIFICATION FairSpec
INVARIANTS
    ExactOnSuccess
    ReloadUnlessForgotten
PROPERTIES
    KeepsPromise
    ObsoleteGoLast
    Convergence
