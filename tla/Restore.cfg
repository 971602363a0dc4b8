SPECIFICATION Spec
CONSTANTS
    Restorer = {r1, r2}
    Txn = {t1, t2}
    Source <- TwoBackups
    Invalid <- BadBackup
    None = None
    Environments <- Three
    MaxRestores = 4
SYMMETRY Symmetry
CHECK_DEADLOCK FALSE
INVARIANTS TypeOK WholeUndisturbed NothingLost RefusedNeverLive FlockExcludes
PROPERTIES LossIsWarned OnlySwapShows ImplementsReplacement
