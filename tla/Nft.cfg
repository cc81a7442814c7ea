SPECIFICATION Spec
CONSTANTS
    b1 = b1
    b2 = b2
    s = s
    BulkMiners = {b1, b2}
    Sync = s
    StartHeight = 2
    MaxHeight = 4
    None = None
INVARIANTS
    TypeOK
    OwnerNotOlder
    OwnerCurrent
CHECK_DEADLOCK FALSE
