SPECIFICATION FairSpec
CONSTANTS
    a = a
    b = b
    Peer <- MCPeers
    MaxSessions = 1
    ConnectTimeout = 5
    KeepAlives <- MCKeepAlives
    Poll = 2
    MaxHandler = 3
    MaxUnread = 2
    MaxAge = 6
INVARIANTS
    TypeOK
    CapIsKept
    ConnectInTime
    SilenceIsNoticed
PROPERTIES
    LivelyIsKept
    SlotIsReclaimed
    ClosedIsFreed
