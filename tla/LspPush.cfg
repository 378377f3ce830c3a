SPECIFICATION Spec
CONSTANTS
    u1 = u1
    u2 = u2
    clean = clean
    muted = muted
    bad = bad
    Uris <- TwoUris
    Texts <- WithMute
    Clean <- CleanSet
    Muted <- MutedSet
    PullClient = FALSE
    ResetVersions = TRUE
    MayFail = TRUE
    MaxEvents = 4
    MaxInbox = 2
CHECK_DEADLOCK FALSE
INVARIANTS
    NonStaleIsCurrent
    TrackedForClearing
    CalmConverged
PROPERTIES
    CancelDropsResults
