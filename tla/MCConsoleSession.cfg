SPECIFICATION Spec
CONSTANTS
    Slots = {s1, s2, s3}
    s1 = s1
    s2 = s2
    s3 = s3
    MaxPairs = 3
    MaxExpiries = 1
    MaxFaults = 1
SYMMETRY SlotSymmetry
INVARIANTS StoreFollowsUser ExpiryIsHidden
CHECK_DEADLOCK FALSE
