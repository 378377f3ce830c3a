SPECIFICATION Spec
CONSTANTS
    a1 = a1
    a2 = a2
    s1 = s1
    Audits <- TwoAudits
    Shas <- OneSha
    MaxAge = 1
    GitMayFail = TRUE
    Confirms <- FirstIsForeign
    MaxClock = 1
    MaxCrashes = 1
    MaxReaps = 1
    MaxRecycles = 0
INVARIANTS
    HeldEntryIntact
    LiveTempKept
    UnstampedSpared
