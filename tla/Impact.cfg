SPECIFICATION FairSpec
CONSTANTS
    p1 = p1
    p2 = p2
    p3 = p3
    w1 = w1
    w2 = w2
    f = f
    g = g
    s = s
    old1 = old1
    old2 = old2
    NoStore = NoStore
    NoRun = NoRun
    Procs <- ThreeProcs
    Worktrees <- TwoTrees
    Paths <- TwoPaths
    Symbols <- OneSymbol
    PastRuns <- TwoPast
    Ops <- MCOps
    OpsOf <- MCOpsOf
    Others <- OneOther
    MaxRecords = 2
    MaxRecent = 1
    Legacy <- MCLegacy
    InitialStores <- MCStores
CHECK_DEADLOCK FALSE
INVARIANTS
    ResolvedCoversRecent
    ContainmentOnce
PROPERTIES
    SerialUnlessClobbered
    RunsFinish
