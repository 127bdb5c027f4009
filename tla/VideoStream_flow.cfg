SPECIFICATION FairSpec
CONSTANTS
    Modes <- OnlyH264
    Sizes = {s1}
    Regions = {}
    HighQueueCount = 3
    LowQueueCount = 1
    MinWindow = 2
    MaxWindow = 2
    SurfaceIds = 65536
    MaxFrames = 4
    MaxAdverts = 1
    CanBlock = FALSE
    CanFail = FALSE
    CanSuspendAcks = TRUE
    CanSuppress = TRUE
    CanClose = TRUE
INVARIANTS
    BackpressureCovered
PROPERTIES
    EncoderResumes
    FramesAreTaken
    CloseCompletes
CHECK_DEADLOCK FALSE
