SPECIFICATION SpecPowerLoss
CONSTANTS
    NList = 1
    Workers = {w1}
    Knobs = {q1}
    None = None
    NStreams = 1
    NListFiles = 1
    PayloadBytes <- MCPayloadBytes
    NReal <- MCNReal
    MaxStarts = 1
CHECK_DEADLOCK FALSE
INVARIANT
    DoneMeansWritten
