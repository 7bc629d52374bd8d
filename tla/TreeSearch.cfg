CONSTANTS
    Sizes = {2, 3, 4}
    Inputs <- MCInputs
    Targets <- MCTargets
    Options <- MCOptions
    DefaultMinPoints = 4
    Deltas <- MCDeltas
    MaxMoves = 1
    Radix = 2
    QMaxItems = 1
    QMaxDepth = 2
SPECIFICATION SearchSpec
INVARIANTS
    CursorInside
    ExtentsAgree
PROPERTIES
    StopIsFinal
    ImplementsSearch
