CONSTANTS
    Clients = {c1, c2}
    Sizes = {1, 2}
    Limit = 2
    MaxWrites = 3
    Routes = {"sdk", "presigned", "host", "complete"}
    Parts = {1, 2}
    MaxPuts = 2
    MaxEnds = 2
    MaxFaults = 1
    SmallPuts = {2}
SPECIFICATION StorageSpec
INVARIANTS
    FilesAgree
    UsageExact
    StoredAsRequested
    
    

    
CHECK_DEADLOCK FALSE
