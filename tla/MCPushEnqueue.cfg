CONSTANTS
    c1 = c1
    c2 = c2
    Clients = {c1, c2}
    UserIds = {u1}
    Broadcast = Broadcast
    Keys = {k1}
    NoKey = NoKey
    Limit = 2
    MaxBatch = 2
    MaxRows = 3
    MaxLosses = 1
SYMMETRY ClientSymmetry
SPECIFICATION EnqueueSpec
INVARIANTS
    EveryRowCharged
    OverrunBounded
    KeyNamesOneRow
CHECK_DEADLOCK FALSE
