SPECIFICATION Spec
CONSTANTS
    Tenant = {1, 2}
    NoTenant = NoTenant
    Name = {x1, x2}
    NoName = NoName
    Default = NoTenant
    Request = {}
    MaxFaults = 1
    MaxCrashes = 1
PROPERTIES
    ExistingStays
CHECK_DEADLOCK FALSE
