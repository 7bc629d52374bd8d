CONSTANTS
    Inputs <- MCInputs
    Options <- MCOptions
    DefaultMinPoints = 4
    Deltas = {}
    MaxMoves = 0
    Radix = 4
    QMaxItems = 1
    QMaxDepth = 2
    Procs = {p1, p2}
    Queues = {q1, q2}
    Centers <- MCCenters
    MaxCalls = 1
SPECIFICATION FairNearbySpec
CHECK_DEADLOCK FALSE
INVARIANTS
    QueueOwned
    QueueBoundsAll
    FindsNearest
PROPERTY CallsEnd
