SPECIFICATION Spec
CONSTANTS
    a1 = a1
    b1 = b1
    b2 = b2
    s = s
    Accounts = {a1}
    BulkMiners = {b1, b2}
    Sync = s
    StartHeight = 1
    MaxHeight = 3
    MaxFaults = 1
    None = None
SYMMETRY MinerSymmetry
INVARIANTS
    HoldingFresh
    SupplyFresh
    TokenWhole
CHECK_DEADLOCK FALSE
