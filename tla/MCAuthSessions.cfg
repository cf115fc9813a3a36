CONSTANTS
    Clients = {c1, c2}
    MaxTokens = 3
    MaxResets = 3
    MaxPasswords = 4
    MaxFaults = 1
    MaxWrites = 4
SPECIFICATION BoundedSpec
SYMMETRY ClientSymmetry
INVARIANTS
    ReplacedBySuccessor
    OldPasswordsRevoked
    
CHECK_DEADLOCK FALSE
