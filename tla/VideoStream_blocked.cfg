SPECIFICATION FairSpec
CONSTANTS
    Modes <- OnlyH264
    Sizes = {s1}
    Regions = {}
    HighQueueCount = 3
    LowQueueCount = 1
    MinWindow = 2
    MaxWindow = 2
    SurfaceIds = 65536
    MaxFrames = 5
    MaxAdverts = 1
    CanBlock = TRUE
    CanFail = FALSE
    CanSuspendAcks = FALSE
    CanSuppress = FALSE
    CanClose = FALSE
PROPERTIES
    EncoderResumes
CHECK_DEADLOCK FALSE
