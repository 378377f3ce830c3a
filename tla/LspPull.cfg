SPECIFICATION FairSpec
CONSTANTS
    u1 = u1
    u2 = u2
    clean = clean
    muted = muted
    bad = bad
    Uris <- OneUri
    Texts <- OneBad
    Clean <- CleanSet
    Muted = {}
    PullClient = TRUE
    ResetVersions = FALSE
    MayFail = TRUE
    MaxEvents = 3
    MaxInbox = 2
CHECK_DEADLOCK FALSE
INVARIANTS
    PulledMatchesCache
PROPERTIES
    AcceptedSaveAnalysed
