SPECIFICATION CyclesSpec
CONSTANTS
    NFiles = 4
    Names <- MCNames
    Default = "default"
    Star = "*"
    Families <- MCForward
    MaxTuples = 2
INVARIANT LiveNeverReported
CHECK_DEADLOCK FALSE
