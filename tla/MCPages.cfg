SPECIFICATION FairSpec
CONSTANTS
    Request = {1, 2, 3}
    Job <- MCJob
    ReaderCount = 1
    Nobody = Nobody
    Closer = Closer
    MaxFaults = 1
    MaxPanics = 1
INVARIANTS
    TypeOK
    AllOrNothing
    OneVictim
PROPERTIES
    Progress
CHECK_DEADLOCK FALSE
