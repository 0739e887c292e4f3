CONSTANTS
    MaxInflight = 2
    m1 = m1
    m2 = m2
    m3 = m3
    x2 = x2
    Content = {m1, m2, m3, x2}
    Releases <- MCReleases
    Legacy <- MCLegacy
    Versions = {1, 2, 3}
    Blank = Blank
    NoRow = NoRow
    Retention = 2
    Times = {1, 2}
    MaxEvents = 3
SPECIFICATION AppSpec
INVARIANTS
    CleanExit
    ErrorHasReason
    NilMeansAsked
    OpenHasOwnSchema
    KeepsTheNewest
PROPERTIES
    EndsWhenAsked
    StartsAgain
