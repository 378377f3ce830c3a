SPECIFICATION FairSpec
CONSTANTS
    w1 = w1
    w2 = w2
    p1 = p1
    p2 = p2
    Workers <- TwoWorkers
    Pids <- TwoPids
    WatchCommand = FALSE
    ForeignPids <- OneForeign
    MaxSpawns = 2
    MaxSignals = 2
INVARIANTS
    RegistrySound
    RegisteredUntilDrained
    DrainKillsSnapshot
PROPERTIES
    ForcedExit
