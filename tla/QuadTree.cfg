CONSTANTS
    NumPoints = 6
    Inputs <- MCInputs
    QMaxItems = 2
    QMaxDepth = 2
SPECIFICATION FairSpec
CHECK_DEADLOCK FALSE
INVARIANTS
    TypeOK
    WithinBounds
    EachItemOnce
    LeavesFit
    SplitsDoNotNest
PROPERTY BuildEnds
