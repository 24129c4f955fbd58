SPECIFICATION Spec
CONSTANTS
    iRecords = 4
    Pieces = 2
    MaxRecords = 6
    MaxFaults = 1
INVARIANT RelaysAll
INVARIANT HoldsLastRecords
INVARIANT SkipsOnly
PROPERTY PauseEnds
CHECK_DEADLOCK FALSE
