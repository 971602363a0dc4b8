SPECIFICATION Spec
CONSTANTS
    Restorer = {r1}
    Txn = {t1}
    Source <- GoodBackup
    Invalid <- Nothing
    None = None
    Environments <- Both
    MaxRestores = 1
SYMMETRY Symmetry
CHECK_DEADLOCK FALSE
INVARIANT ReplacedAtomically
