SPECIFICATION SpecAll
CONSTANTS
    MaxHeight = 6
    MaxFork = 0
    MaxQueue = 2
    MaxFaults = 0
    MaxUint = 9
    MaxRewind = 2
    DbErrors = FALSE
    MaxOther = 0
    MinerNum = 1
    Lagging = FALSE
INVARIANTS
    NoHeightLost
VIEW AllView
CHECK_DEADLOCK FALSE
