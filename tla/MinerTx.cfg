SPECIFICATION SpecTx
CONSTANTS
    A = A
    B = B
    Accounts = {A, B}
    None = None
    MaxEvents = 2
    TokenContracts = {A}
    Creator = A
    MaxArgs = 3
    ArgValues = {A, B, "1111", "null"}
    TxTypes = {"NORMAL", "GOVERNANCE", "REDEPLOY", "TRANSFER", "DEPLOY", "MULTICALL"}
INVARIANTS
    TxLast
    HoldersWritten
CHECK_DEADLOCK FALSE
