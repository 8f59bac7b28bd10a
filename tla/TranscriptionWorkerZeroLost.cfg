SPECIFICATION Spec
CONSTANTS
    Workers = {w1}
    Segs = {s1}
    Texts = {t1}
    NoText = NoText
    NoChunk = NoChunk
    MaxEnd = 2
    MaxChunks = 2
    MaxAttempts = 1
INVARIANTS
    ZeroLost
