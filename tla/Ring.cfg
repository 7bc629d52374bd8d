CONSTANTS
    Rings <- MCRings
    Segments <- MCSegments
    ComplexRingMinPoints = 16
SPECIFICATION Spec
CHECK_DEADLOCK FALSE
INVARIANTS
    PointExact
    ContainsStrictly
    ContainsOffVertices
    AnyOrder
    IntersectsWithEdge
    IntersectsStrictly
