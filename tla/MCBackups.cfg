SPECIFICATION Spec
CONSTANTS
    Db = {1, 2}
    Scheduler = scheduler
    Cycle = {scheduler, request}
    MaxBackups = 1
    Retention = 1
    MaxClock = 3
    MaxFaults = 1
    MaxCrashes = 1
INVARIANTS
    Consistent
    RestoreIsWhole
PROPERTIES
    RetentionHolds
    NewestStay
CONSTRAINTS
    Small
CHECK_DEADLOCK FALSE
