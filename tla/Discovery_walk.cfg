CONSTANTS
    n1 = n1
    n2 = n2
    None = None
    Id = {1, 2, 3}
    Minecraft = {1, 3}
    Alloc = {1, 2, 3, 4}
    Node = {n1, n2}
    NodeOf <- MCNodeOf
    any = any
    empty = empty
    host = host
    Host = {any, empty, host}
    Empty = empty
    Unspecified = {any}
    AddressOf <- MCAddressOf
    Fallback = any
    PageSize = 1
    MaxChanges = 2
    Attempts = 2
SPECIFICATION FairSpec
INVARIANTS
    TransientIsTolerated
    ExactWhenQuiet
    StableServersAreFound
    FoundWasThere
PROPERTIES
    WalkEnds
