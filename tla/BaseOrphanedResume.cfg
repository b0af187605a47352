SPECIFICATION Spec
CONSTANTS
    N = 6
    BlockSize = 2
    ShardSize = 4
    Cluster <- MCCluster
    NList = 3
    BucketSize = 2
    Settings <- MCSettings
    MaxRuns = 3
    Torn = Torn
    None = None
CHECK_DEADLOCK FALSE
INVARIANT
    ResumeContinues
