SPECIFICATION Spec
CONSTANTS
    Connect = Connect
    Disconnect = Disconnect
    Quiet = Quiet
    Garbage = Garbage
    s1 = s1
    p1 = p1
    f1 = f1
    Asks <- MCAsks
    Publishes <- MCPublishes
    Foreign <- MCForeign
    RelayEnabled = TRUE
    SendCanFail = TRUE
    TeardownFails = TRUE
INVARIANTS
    TypeOK
    NoRequestForgotten
    LedgerNeedsUpstream
    StrayOnlyAfterLateRelay
    RetryOnlyWhenLocal
    BridgeHearsTheEnd
