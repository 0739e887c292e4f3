CONSTANTS
    Uuid = {1, 2}
    Blank = Blank
    Inventories <- MCInventories
    Books <- MCBooks
    MaxLabel = 3
    None = None
SPECIFICATION Spec
INVARIANTS
    AllOrNothing
    DefaultsAreClean
