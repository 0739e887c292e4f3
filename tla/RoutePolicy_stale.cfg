CONSTANTS
    Client = {a, b}
    Main = {m1, m2}
    Alias = {alias}
    MaxRevision = 3
    MaxLives = 2
    None = None
SPECIFICATION Spec
SYMMETRY Symmetry
PROPERTIES
    StaleWriteConflicts
