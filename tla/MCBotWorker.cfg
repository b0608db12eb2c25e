SPECIFICATION FairSpec
CONSTANTS
    Request = {1, 2}
    NoRequest = NoRequest
    Malformed = {1}
    MaxConcurrent = 1
    MaxAsks = 3
    MaxFaults = 2
    MaxCrashes = 1
INVARIANTS
    TypeOK
    AnsweredOnce
    CompletedHasAnswer
    StuckOnlyByFault
PROPERTIES
    Served
CHECK_DEADLOCK FALSE
