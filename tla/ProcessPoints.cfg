CONSTANTS
    MaxCoord = 2
    MaxPoints = 4
    Inputs <- MCInputs
SPECIFICATION Spec
CHECK_DEADLOCK FALSE
INVARIANTS
    LoopCovers
    RectCovers
    RectTight
    ClockwiseIsArea
    ConvexExact
