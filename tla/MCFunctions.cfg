CONSTANTS
    Editors = {e1, e2, e3}
    Codes = {0, 1, 2}
    MaxVersions = 4
    MaxEdits = 4
    Invocations = {i1, i2}
    NoParent = NoParent
    Permits = 1
    RateLimit = 1
    MonthlyLimit = 2
    MaxVersion = 2
    MaxFaults = 1
    MaxDisconnects = 1
SPECIFICATION FunctionsSpec
INVARIANTS
    ActiveIsStored
    EachFromPrevious
    AdmissionExact
    AttendedProcessesBounded
PROPERTIES
    InvocationSettles
CHECK_DEADLOCK FALSE
