CONSTANTS
    e1 = e1
    e2 = e2
    MaxItems = 2
    Users = {u1, u2}
    NoUser = NoUser
    Endpoints = {e1}
    MaxRetries = 2
    BatchSize = 1
    ClaimTimeout = 1
    Retention = 1
    MaxAge = 1
    Delays = {1}
    Backoffs = {1}
    MaxFaults = 1
SPECIFICATION FairSpec
PROPERTIES
    EveryMessageSettles
