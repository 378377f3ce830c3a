SPECIFICATION WatchFairSpec
CONSTANTS
    w1 = w1
    p1 = p1
    f1 = f1
    f2 = f2
    Workers = {}
    Pids <- OnePid
    WatchCommand = TRUE
    ForeignPids = {}
    MaxSpawns = 1
    MaxSignals = 1
    Files <- OneFile
    Ignorable <- OneFile
    MaxEvents = 3
INVARIANTS
    ChangeOnItsWay
PROPERTIES
    WatchStops
    ChangeAnalysed
