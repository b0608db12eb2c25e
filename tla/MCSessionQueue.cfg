SPECIFICATION FairSpec
CONSTANTS
    Session = {1, 2}
    NoSession = NoSession
    alice = alice
    bob = bob
    User = {alice, bob}
    Owner <- MCOwner
    EnqueueFiles = TRUE
    MaxInFlight = 2
    MaxEdits = 1
    MaxCrashes = 1
    MaxFaults = 1
INVARIANTS
    TypeOK
    ExactlyOnce
    DoneIsApplied
    StatusTellsOutcome
    AuditBacked
    ActiveHasFile
PROPERTIES
    ImplementsAtomicMerge
    Served
CHECK_DEADLOCK FALSE
