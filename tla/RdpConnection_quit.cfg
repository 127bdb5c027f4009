SPECIFICATION FairSpec
CONSTANTS
    c1 = c1
    c2 = c2
    Conns <- OneConn
    MaxCalls = 1
    MaxActivations = 1
    CanQuit = TRUE
    CanFail = FALSE
PROPERTY QuitCompletes
CHECK_DEADLOCK FALSE
