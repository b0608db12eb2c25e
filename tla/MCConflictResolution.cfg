SPECIFICATION RSpec
CONSTANTS
    Session = {s1, s2}
    Block = {b1, b2, b3}
    Root = {b1}
    NoBlock = NoBlock
    Text = {t1, t2}
    FirstText = t1
    Place = {p1}
    FirstPlace = p1
    TypedTimes = TRUE
    MaxCalls = 4
    MaxInFlight = 1
    MaxChoices = 2
INVARIANTS
    RConsistent
PROPERTIES
    NoLostText
    DiscardHolds
CONSTRAINT Small
SYMMETRY Symmetric
CHECK_DEADLOCK FALSE
