CONSTANTS
    Rings <- MCMarkedRings
    Segments <- MCSegments
    ComplexRingMinPoints = 16
SPECIFICATION Spec
CHECK_DEADLOCK FALSE
INVARIANT ContainedIsInside
