CONSTANTS
    Coords <- MCCoords
    ComplexRingMinPoints = 6
    Width = 6
    Geometries <- MCGeometries
    Deltas <- MCDeltas
    MaxOffset = 1
SPECIFICATION SegmentSpec
INVARIANT IntersectsIfOverlap
