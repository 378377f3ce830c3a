SPECIFICATION FairSpec
CONSTANTS
    FailureLimit = 2
    MaxCalls = 4
    MaxScope = 2
    Nothing = Nothing
CHECK_DEADLOCK FALSE
INVARIANTS
    OneAtATime
    ForceShowsLatest
    PausesAfterFailures
PROPERTIES
    CallsAnswered
