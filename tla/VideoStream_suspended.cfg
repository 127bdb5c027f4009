SPECIFICATION FairSpec
CONSTANTS
    Modes <- OnlyH264
    Sizes = {s1, s2}
    Regions = {}
    HighQueueCount = 3
    LowQueueCount = 1
    MinWindow = 2
    MaxWindow = 2
    SurfaceIds = 65536
    MaxFrames = 4
    MaxAdverts = 1
    CanBlock = FALSE
    CanFail = FALSE
    CanSuspendAcks = TRUE
    CanSuppress = FALSE
    CanClose = FALSE
PROPERTIES
    FramesAreTaken
CHECK_DEADLOCK FALSE
