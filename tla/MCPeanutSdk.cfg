SPECIFICATION Spec
CONSTANTS
    MaxCalls = 3
    MaxPlain = 1
    MaxRetries = 1
    MaxPairs = 2
    MaxFaults = 1
    Capacity = 2
    MaxEvents = 3
    MaxKeepAlives = 1
INVARIANTS ExecutionsBounded   
PROPERTIES CallsSettle EventsDelivered
CHECK_DEADLOCK FALSE
