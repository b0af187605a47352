SPECIFICATION FairSpec
CONSTANTS
    NList = 2
    Workers = {w1, w2}
    Knobs = {q1}
    None = None
    NStreams = 1
    NListFiles = 1
    PayloadBytes <- MCPayloadBytes
    NReal <- MCNReal
    MaxStarts = 2
CHECK_DEADLOCK FALSE
PROPERTIES
    RunEnds
