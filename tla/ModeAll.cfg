SPECIFICATION SpecAll
CONSTANTS
    MaxHeight = 3
    MaxFork = 1
    MaxQueue = 1
    MaxFaults = 1
    MaxUint = 9
    MaxRewind = 2
    DbErrors = FALSE
    MaxOther = 0
    MinerNum = 2
    Lagging = TRUE
INVARIANTS
    CheckRepairs
PROPERTIES
    HeightsKept
VIEW AllView
CHECK_DEADLOCK FALSE
