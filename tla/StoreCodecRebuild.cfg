SPECIFICATION Spec
CONSTANTS
    NList = 2
    s1 = s1
    s2 = s2
    q1 = q1
    q2 = q2
    Sigs <- MCSigs
    Knobs <- MCKnobs
    None = None
    Operators <- Rebuilding
CHECK_DEADLOCK FALSE
INVARIANTS
    CodecHashTruthful
