CONSTANTS
    Node <- MCNode
    MaxSize = 6
SPECIFICATION FairSpec
INVARIANT TypeOK
INVARIANT HeapOrder
INVARIANT LoopOrder
PROPERTY PopsLeast
PROPERTY ImplementsNodeBag
PROPERTY CallsReturn
