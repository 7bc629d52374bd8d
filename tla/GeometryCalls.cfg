CONSTANTS
    Coords <- MCCoords
    ComplexRingMinPoints = 6
    Width = 6
    Geometries <- MCGeometries
    Deltas <- MCDeltas
    MaxOffset = 1
SPECIFICATION Spec
INVARIANTS
    RaycastExact
    IntersectsExactly
    ContainsExactly
    CornersCovered
    MeetsExactly
    MoveIsRelative
    HoleExact
