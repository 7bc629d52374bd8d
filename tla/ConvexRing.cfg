CONSTANTS
    MaxCoord = 2
    MaxPoints = 4
    Inputs <- MCClosedRings
SPECIFICATION Spec
CHECK_DEADLOCK FALSE
INVARIANT ConvexWhenClosed
