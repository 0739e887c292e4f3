CONSTANTS
    Client = {a, b}
    Main = {m1, m2}
    Alias = {alias}
    MaxRevision = 3
    MaxLives = 2
    None = None
    Action = {settings}
    Interval = 2
    MaxTime = 2
SPECIFICATION ApiSpec
SYMMETRY Symmetry
INVARIANTS
    NoOrphans
    AdmittedAreSpaced
PROPERTIES
    NoLostUpdate
    AnswerIsCurrent
