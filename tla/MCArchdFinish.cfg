SPECIFICATION FairSpec
CONSTANTS
    f1 = f1
    f2 = f2
    c1 = c1
    c2 = c2
    Feeder = {f1, f2}
    Pipelined = {f2}
    Client = {}
    Script <- IngestScript
    Prefix <- IngestPrefix
    ServerSocket = 1
    ClientSocket = 2
    Conns = {3, 4}
    NoFd = 0
    None = None
    Rec = {1, 2, 3, 4, 5}
    Depth = 0
    RecordUnits = 1
    SendRoom = 2
    MaxServers = 2
    MaxClients = 1
    CombineMax = 2
    MaxFaults = 1
    MaxVisits = 0
INVARIANT ExitArchivesAll
