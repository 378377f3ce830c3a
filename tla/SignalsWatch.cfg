SPECIFICATION TerminatingChildrenSpec
CONSTANTS
    w1 = w1
    w2 = w2
    p1 = p1
    p2 = p2
    Workers <- OneWorker
    Pids <- TwoPids
    WatchCommand = TRUE
    ForeignPids <- OneForeign
    MaxSpawns = 2
    MaxSignals = 2
PROPERTIES
    WatchStops
