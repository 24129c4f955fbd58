SPECIFICATION Spec
CONSTANTS
    Span = 2
    MaxTime = 5
    Capacities = {3, 4}
    MaxRequests = 2
    NoContext = NoContext
INVARIANT SearchInFile
INVARIANT SearchFinds
INVARIANT SendsNothingOlder
PROPERTY SearchNarrows
PROPERTY AlwaysServes
CHECK_DEADLOCK FALSE
