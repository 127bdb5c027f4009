SPECIFICATION FairSpec
CONSTANTS
    d1 = d1
    d2 = d2
    k1 = k1
    k2 = k2
    NoDevice = NoDevice
    SessionTypes <- BothTypes
    OutputExists = TRUE
    Keys <- TwoKeys
    Devices <- TwoBoards
    MaxEisEvents = 2
    MaxSignals = 2
    CanFailSource = TRUE
INVARIANTS TypeOK CapturesWhenWanted HeldKeysAreKnown
PROPERTIES KeysAreReleased PortalCloseIsNoticed SessionSettles
CHECK_DEADLOCK FALSE
