SPECIFICATION Spec
CONSTANTS
    Fields = {temp, gps}
    MaxUpdates = 5
    MaxKills = 2
    NoSlot = NoSlot
INVARIANT ShowsOneUpdate
PROPERTY NeverBackwards
 
CHECK_DEADLOCK FALSE
