SPECIFICATION FairSpec
CONSTANTS
    MaxDev = 2
    RetryCnt = 2
    ArpTimeoutCount = 2
    MaxWire = 2
    SeqSize = 3
    FileSizes <- MCFileSizes
    TimeoutCountMax = 1
    Ports = {p1}
    Sessions = {t1, t2}
    MaxOffset = 6
    DhcpServers = {s1, s2}
    IdCacheSize = 2
    IdWords = 2
    MaxBootpTry = 3
 
INVARIANT ZeroMeansNothingToLoad
INVARIANT BoundToLease
PROPERTY LoopEnds
CHECK_DEADLOCK FALSE
