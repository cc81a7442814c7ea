SPECIFICATION Spec
CONSTANTS
    t1 = t1
    t2 = t2
    Tokens = {t1, t2}
    NContracts = 2
    Kinds = {"token", "contract"}
    MaxChanges = 5
    MaxCrashes = 1
    Nil = Nil
INVARIANTS
    NoStaleMark
    ClaimsMarked
    CodeVerified
SYMMETRY TokenSymmetry
CHECK_DEADLOCK FALSE
