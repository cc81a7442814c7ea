SPECIFICATION Spec
CONSTANTS
    MaxHeight = 3
    MaxFork = 1
    MaxQueue = 1
    MaxFaults = 1
    MaxUint = 9
    MaxRewind = 2
    DbErrors = FALSE
    MaxOther = 0
INVARIANTS
    ReorgIndexed
CHECK_DEADLOCK FALSE
