SPECIFICATION FairSpec
CONSTANTS
    Blocks = 4
    Tiles = 2
    Depth = 2
    CpuStride = 2
    IoDepth = 1
    WriteDepth = 1
    None = None
CHECK_DEADLOCK FALSE
INVARIANTS
    TypeOK
    TilesInOrder
    ResultsFit
    HybridPushNeverWaits
    EveryBlockInOnePlace
    NoFalseAlarm
PROPERTIES
    ImplementsLog
    EveryCallReturns
