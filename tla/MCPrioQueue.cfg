SPECIFICATION Spec
CONSTANTS
    d1 = d1
    d2 = d2
    d3 = d3
    Data = {d1, d2, d3}
    MaxPriority = 0
    Capacity = 2
    MaxTime = 3
    MaxRefs = 3
INVARIANT TypeOK
INVARIANT NoNullEviction
INVARIANT QueuedRecordsLive
 
 
CHECK_DEADLOCK FALSE
