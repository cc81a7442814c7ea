SPECIFICATION FairSpec
CONSTANTS
    MinerNum = 2
    Parts <- TwoParts
    AccTokens = "accTokens"
    Block = "block"
    Main = "main"
    BulkSize = 1
    MaxHeight = 2
    a = a
    t = t
    Ids = {a, t}
    DocsOf <- SharedToken
    MaxErrors = 1
    MaxCrashes = 1
INVARIANTS
    TypeOK
    BlockHasParts
    AccRecoverable
    AllIndexed
    OnlyTimerPanics
    ClosedWhenIdle
PROPERTIES
    ImplementsStore
    Terminates
    FirstFlush
CHECK_DEADLOCK FALSE
