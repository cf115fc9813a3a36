CONSTANTS
    e1 = e1
    e2 = e2
    MaxItems = 2
    Users = {u1}
    NoUser = NoUser
    Endpoints = {e1, e2}
    MaxRetries = 3
    BatchSize = 2
    ClaimTimeout = 1
    Retention = 1
    MaxAge = 1
    Delays = {0, 1}
    Backoffs = {1}
    MaxFaults = 1
SYMMETRY EndpointSymmetry
SPECIFICATION Spec
INVARIANTS
    FailedIffExhausted
    ClaimIsExclusive
    AcknowledgedOnce
PROPERTIES
    ImplementsLifecycle
