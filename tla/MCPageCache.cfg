SPECIFICATION Spec
CONSTANTS
    Key = {k1, k2}
    Block = {b1, b2}
    Size = {1, 2, 3}
    MaxSize = 2
    MaxSets = 3
    MaxFaults = 1
    MaxRestarts = 1
INVARIANTS
    TypeOK
    Accounted
    WithinLimit
    MappingCovers
    NoRevival
SYMMETRY Symmetric
CHECK_DEADLOCK FALSE
