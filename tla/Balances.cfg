SPECIFICATION Spec
CONSTANTS
    a1 = a1
    a2 = a2
    Accounts = {a1, a2}
    Aliases = {a2}
    Given = {a2}
    Every = 2
    StartHeight = 3
    MaxHeight = 4
    MaxCrashes = 1
    None = None
INVARIANTS
    BalanceFresh
    StakersTracked
CHECK_DEADLOCK FALSE
