SPECIFICATION FairSpec
CONSTANTS
    MaxHeight = 2
    MaxFork = 1
    MaxQueue = 1
    MaxFaults = 2
    MaxUint = 9
    MaxRewind = 1
    DbErrors = TRUE
    MaxOther = 1
INVARIANTS
    TypeOK
    SyncCovers
    BlockHasTxs
PROPERTIES
    RewindLeavesOnlyMined
    StreamReturns
CHECK_DEADLOCK FALSE
