SPECIFICATION Spec
CONSTANTS
    NList = 2
    Workers = {w1, w2}
    Knobs = {q1, q2}
    None = None
    NStreams = 2
    NListFiles = 2
    PayloadBytes <- MCPayloadBytes
    NReal <- MCNReal
    MaxStarts = 3
SYMMETRY MCSymmetry
CHECK_DEADLOCK FALSE
INVARIANTS
    IInv
    DoneIsComplete
    MetaMeansAllDone
    StatsOfAllClusters
PROPERTIES
    PublishedIsFrozen
    ImplementsLedger
