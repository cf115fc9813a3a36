CONSTANTS
    Runners = {daily, admin}
    Keep = 1
    None = None
    Partial = Partial
    Broken = Broken
    Torn = Torn
    MaxCommits = 1
    MaxTime = 3
    MaxRequests = 1
    MaxFaults = 2
SPECIFICATION Spec
SYMMETRY RunnerSymmetry
INVARIANTS
    ServedFileComplete
    RestoresBounded
 
CHECK_DEADLOCK FALSE
