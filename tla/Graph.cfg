SPECIFICATION CyclesSpec
CONSTANTS
    NFiles = 4
    Names <- MCNames
    Default = "default"
    Star = "*"
    Families <- MCFamilies
    MaxTuples = 3
INVARIANTS
    LiveUnlessNamedOverStar
    CreditsJustified
    QuietRoundSettles
    CapSparesChains
    LiveReferencesReachable
    StubTypesExact
    SccsExact
CHECK_DEADLOCK FALSE
