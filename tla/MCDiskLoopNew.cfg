SPECIFICATION Spec
CONSTANTS
    Sizes = {3}
    Span = 2
    Slack = 1
    MaxTime = 4
    LogTimes = {1, 2}
    MaxWrites = 4
    MaxFaults = 1
    MaxResizes = 0
    NoFile = NoFile
    Null = Null
    NoRecord = NoRecord
INVARIANT NewLoopOpens
CHECK_DEADLOCK FALSE
