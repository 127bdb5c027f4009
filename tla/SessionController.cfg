SPECIFICATION FairSpec
CONSTANTS
    c1 = c1
    c2 = c2
    Conns <- TwoConns
    OperatingMode = "RemoteAccess"
    MonitorOverride = FALSE
    MaxActivations = 4
    MaxLogins = 2
    CanError = TRUE
    CanRefuse = TRUE
INVARIANTS TypeOK OneController LeftLocked UsableWhileConnected
PROPERTIES NewcomerStays SeatGivenUp
CHECK_DEADLOCK FALSE
