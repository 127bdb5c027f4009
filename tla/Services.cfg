SPECIFICATION ServicesSpec
CONSTANTS
    Cursors = {arrow, hand, text, wait, huge}
    Large = {huge}
    PointerCacheSize = 3
    MaxUpdates = 6
    MaxCopies = 2
    NonText = {2}
    TextFormats = 2
    RttInterval = 1
    RequestMaxAge = 2
    AverageInterval = 1
    ResultInterval = 2
    MeasureDuration = 1
    MeasureInterval = 3
    SequenceNumbers = 9
    MaxDelay = 3
    MinAdaptiveQuality = 10
    QualityStepUp = 5
    QualityStepDown = 10
    ByteSize = 256
    Qualities = {5, 300}
    Seeds = {45}
    Shares = {0, 33, 200}
    Rtts = {0, 2, 4}
    MaxActivations = 2
    MaxChanges = 4
    WindowFloor = 2
    UnitsPerSecond = 4
    MinimumRate = 3
    RequestedRate = 6
    MinimumValidRtt = 1
    MaximumValidRtt = 9
    Rates = {0, 1, 5, 9}
    RoundTrips = {0, 1, 3, 8, 9}
    Names = {ann, bob}
    Passwords = {one, two}
    NoPassword = none
    MaxEdits = 3
    MaxClicks = 2
    MaxInvocations = 2
    mouse = mouse
    tablet = tablet
    board = board
    InputDevs = {mouse, tablet, board}
    NoDev = nodevice
    Capabilities <- DeviceCapabilities
    Buttons = {left}
    Characters = {letter}
    MaxDeviceEvents = 2
INVARIANTS
    ServicesTypeOK CachesAgree ClipboardsAgree AnswersFitRequests EncoderObeys
    LoginsAreKept StatusIsShown NothingStuck
PROPERTIES
    ImplementsPointer CopyIsAnnounced MeasuringGoesOn QualitySettles
CHECK_DEADLOCK FALSE
