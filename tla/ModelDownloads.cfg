SPECIFICATION Spec
CONSTANTS
    Models = {11, 12}
    Tasks = {1, 2}
    Flavours = {"whisper", "parakeet", "summary"}
    Full = 2
    None = None
CHECK_DEADLOCK FALSE
INVARIANTS
    OneDownloadPerModel
    AvailableIsComplete
PROPERTIES
    DownloadsEnd
