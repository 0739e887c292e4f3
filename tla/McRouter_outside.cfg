CONSTANTS
    b1 = b1
    b2 = b2
    Hostname = {1, 2, 3}
    Managed = {1, 3}
    Backend = {b1, b2}
    Invalid = Invalid
    Plans <- MCPlans
    MaxLate = 0
    NoRoute = NoRoute
SPECIFICATION Spec
PROPERTIES
    OutsideIsReadOnly
