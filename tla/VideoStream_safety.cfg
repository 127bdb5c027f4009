SPECIFICATION Spec
CONSTANTS
    Modes <- BothModes
    Sizes = {s1, s2}
    Regions = {}
    HighQueueCount = 3
    LowQueueCount = 1
    MinWindow = 1
    MaxWindow = 2
    SurfaceIds = 65536
    MaxFrames = 3
    MaxAdverts = 2
    CanBlock = TRUE
    CanFail = TRUE
    CanSuspendAcks = FALSE
    CanSuppress = FALSE
    CanClose = TRUE
INVARIANTS
    InFlightBounded
    WindowDrains
    SurfaceFitsFrame
    ClosedIsQuiet
SYMMETRY SizeSymmetry
CHECK_DEADLOCK FALSE
