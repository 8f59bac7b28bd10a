SPECIFICATION FairSpec
CONSTANTS
    Window = 3
    MinPreview = 2
    MinInterval = 2
    MinGrowth = 1
    MinFinal = 2
    Relative = FALSE
    Flushes = 2
    MaxChunks = 3
    MaxLength = 2
INVARIANTS
    SpeechOnce
    MixConserves
    SegmentDiscipline
PROPERTIES
    PipelineEnds
