SPECIFICATION Spec
CONSTANTS
    Proc = {p1, p2, p3}
    Kinds <- Everything
    Crashes = TRUE
    MaxCommands = 3
SYMMETRY Symmetry
CHECK_DEADLOCK FALSE
INVARIANTS TypeOK StoredUnderIndexes QuietMeansRepairable SoloInitRepairs
