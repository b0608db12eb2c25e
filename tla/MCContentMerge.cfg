SPECIFICATION Spec
CONSTANTS
    Session = {s1, s2}
    Block = {b1, b2}
    Root = {b1}
    NoBlock = NoBlock
    Text = {t1, t2}
    FirstText = t1
    Place = {p1}
    FirstPlace = p1
    TypedTimes = TRUE
    MaxCalls = 4
    MaxInFlight = 1
INVARIANTS
    TypeOK
PROPERTIES
    NoLostText
    BlocksStay
    MergedAsShown
CONSTRAINT Small
SYMMETRY Symmetric
CHECK_DEADLOCK FALSE
