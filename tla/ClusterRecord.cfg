SPECIFICATION Spec
CONSTANTS
    N = 4
    MaxDepths = {0, 2, 3}
    Layers = 2
    MaxBits = 3
    QMax = 2
    MaxVirtual = 2
    FewVertices = 2
    W = 4
    SelectStride = 2
    SuperWords = 2
INVARIANTS
    ParentsFirst
    EveryVectorOrdered
    CyclesLoseOneEdge
    SameForestInLevels
    ParentsReadBack
    CoefficientsReadBack
CHECK_DEADLOCK FALSE
