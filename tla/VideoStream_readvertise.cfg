SPECIFICATION Spec
CONSTANTS
    Modes <- OnlyH264
    Sizes = {s1}
    Regions = {}
    HighQueueCount = 3
    LowQueueCount = 1
    MinWindow = 2
    MaxWindow = 2
    SurfaceIds = 65536
    MaxFrames = 4
    MaxAdverts = 2
    CanBlock = FALSE
    CanFail = FALSE
    CanSuspendAcks = FALSE
    CanSuppress = FALSE
    CanClose = FALSE
PROPERTIES
    RecreatedAfterConfirm
CHECK_DEADLOCK FALSE
