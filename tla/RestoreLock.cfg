SPECIFICATION Spec
CONSTANTS
    Restorer = {r1, r2}
    Txn = {t1}
    Source <- GoodBackup
    Invalid <- Nothing
    None = None
    Environments <- Calm
    MaxRestores = 3
SYMMETRY Symmetry
CHECK_DEADLOCK FALSE
INVARIANT OneRestore
