SPECIFICATION Spec
CONSTANTS
    Connect = Connect
    Disconnect = Disconnect
    Quiet = Quiet
    Garbage = Garbage
    s1 = s1
    p1 = p1
    f1 = f1
    Asks <- MCAsks
    Publishes = {}
    Foreign = {}
    RelayEnabled = TRUE
    SendCanFail = TRUE
    TeardownFails = FALSE
INVARIANTS
    AnsweredOnce
