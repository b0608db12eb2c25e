SPECIFICATION Spec
CONSTANTS
    Tenant = {1, 2, 3}
    NoTenant = NoTenant
    Name = {x1, x2}
    NoName = NoName
    Default = 3
    Request = {r1}
    MaxFaults = 1
    MaxCrashes = 1
INVARIANTS
    Consistent
PROPERTIES
    NameIsOneTenant
    LiveKeepsData
CHECK_DEADLOCK FALSE
