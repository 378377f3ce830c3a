SPECIFICATION FairSpec
CONSTANTS
    a1 = a1
    a2 = a2
    s1 = s1
    Audits <- TwoAudits
    Shas <- OneSha
    MaxAge = 0
    GitMayFail = FALSE
    Confirms <- AllConfirm
    MaxClock = 0
    MaxCrashes = 1
    MaxReaps = 1
    MaxRecycles = 1
INVARIANT
    CachePrepared
PROPERTIES
    DeadTempsReclaimed
    ReapedCachesReclaimed
