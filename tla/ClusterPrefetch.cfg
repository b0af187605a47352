SPECIFICATION FairSpec
CONSTANTS
    NList = 4
    Workers = {w1, w2, w3}
    Depths = {1, 2}
CHECK_DEADLOCK FALSE
INVARIANTS
    TypeOK
    EveryClusterOnce
    NothingLost
    StrandedWorkIsDone
PROPERTIES
    HandedInOrder
    EndsUnlessStranded
