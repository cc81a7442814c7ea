SPECIFICATION FairSpec
CONSTANTS
    p1 = p1
    p2 = p2
    c1 = c1
    c2 = c2
    Instances = {p1, p2}
    NTypes = 3
    Chains = {c1, c2}
    Flags = TRUE
    MaxErrors = 2
    MaxCrashes = 1
    MaxClock = 2
INVARIANTS
    TypeOK
    OnePrefix
    OneChain
PROPERTIES
    NothingDropped
    InitEnds
CHECK_DEADLOCK FALSE
