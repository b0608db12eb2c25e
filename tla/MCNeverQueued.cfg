SPECIFICATION FairSpec
CONSTANTS
    Session = {1}
    NoSession = NoSession
    alice = alice
    bob = bob
    User = {alice, bob}
    Owner <- MCOwner
    EnqueueFiles = FALSE
    MaxInFlight = 2
    MaxEdits = 1
    MaxCrashes = 0
    MaxFaults = 0
PROPERTIES
    SubmittedIsServed
CHECK_DEADLOCK FALSE
