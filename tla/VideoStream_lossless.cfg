SPECIFICATION Spec
CONSTANTS
    Modes <- BothModes
    Sizes = {s1, s2}
    Regions = {r1, r2}
    HighQueueCount = 3
    LowQueueCount = 1
    MinWindow = 2
    MaxWindow = 2
    SurfaceIds = 65536
    MaxFrames = 4
    MaxAdverts = 1
    CanBlock = FALSE
    CanFail = FALSE
    CanSuspendAcks = FALSE
    CanSuppress = FALSE
    CanClose = FALSE
INVARIANTS
    DamageCovered
    DeltaFollowsReference
CHECK_DEADLOCK FALSE
