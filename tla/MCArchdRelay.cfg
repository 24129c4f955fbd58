SPECIFICATION Spec
CONSTANTS
    f1 = f1
    f2 = f2
    c1 = c1
    c2 = c2
    Feeder = {f1}
    Pipelined = {}
    Client = {c1}
    Script <- RelayScript
    Prefix <- RelayPrefix
    ServerSocket = 1
    ClientSocket = 2
    Conns = {3, 4}
    NoFd = 0
    None = None
    Rec = {1, 2, 3, 4, 5, 6}
    Depth = 2
    RecordUnits = 2
    SendRoom = 3
    MaxServers = 2
    MaxClients = 1
    CombineMax = 2
    MaxFaults = 1
    MaxVisits = 1
INVARIANT RecordsAreHeld
INVARIANT PendingIsMonitored
INVARIANT RelayedOnce
 
