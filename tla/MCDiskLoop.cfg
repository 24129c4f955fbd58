SPECIFICATION Spec
CONSTANTS
    Sizes = {2, 3, 4}
    Span = 2
    Slack = 1
    MaxTime = 6
    LogTimes = {1, 2}
    MaxWrites = 6
    MaxFaults = 2
    MaxResizes = 1
    NoFile = NoFile
    Null = Null
    NoRecord = NoRecord
 
INVARIANT KeepsOrder
 
INVARIANT StaleOnlyAfterDeath
INVARIANT StoredLoopOpens
PROPERTY WritesForReaders
CHECK_DEADLOCK FALSE
