SPECIFICATION FairSpec
CONSTANTS
    c1 = c1
    c2 = c2
    Conns <- TwoConns
    MaxCalls = 1
    MaxActivations = 1
    CanQuit = TRUE
    CanFail = TRUE
INVARIANTS PeerFreedSafely NoCircularWait ClosedComesLast
PROPERTIES OneTransportOwner StopDestroys ImplementsLife
CHECK_DEADLOCK FALSE
