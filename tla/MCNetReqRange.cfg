SPECIFICATION Spec
CONSTANTS
    Span = 1
    MaxTime = 5
    Capacities = {3, 4}
    MaxRequests = 2
    NoContext = NoContext
INVARIANT CountsRecordsWithin
CHECK_DEADLOCK FALSE
