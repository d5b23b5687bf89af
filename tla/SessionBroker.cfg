SPECIFICATION FairSpec
CONSTANTS
    Connect = Connect
    Disconnect = Disconnect
    Quiet = Quiet
    Garbage = Garbage
    s1 = s1
    p1 = p1
    f1 = f1
    Asks = {}
    Publishes <- MCPublishes
    Foreign <- MCForeign
    RelayEnabled = TRUE
    SendCanFail = FALSE
    TeardownFails = TRUE
INVARIANTS
    RefusalIsFinal
    AnsweredOnce
PROPERTIES
    ActsAsBroker
    ClosedSessionEnds
    BrokenLinkIsGivenUp
