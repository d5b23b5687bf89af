SPECIFICATION Spec
CONSTANTS
    None = None
    Sessions <- MCThreeSessions
    MaxCore = 1
    MaxInfo = 1
    StatusMessages = FALSE
INVARIANT NeverStale
CHECK_DEADLOCK FALSE
