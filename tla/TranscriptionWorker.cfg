SPECIFICATION FairSpec
CONSTANTS
    Workers = {w1}
    Segs = {s1, s2}
    Texts = {t1, t2}
    NoText = NoText
    NoChunk = NoChunk
    MaxEnd = 2
    MaxChunks = 3
    MaxAttempts = 1
INVARIANTS
    Accounting
    VerdictTruthful
    EmissionInOrder
PROPERTIES
    Terminates
