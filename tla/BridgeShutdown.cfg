SPECIFICATION Spec
CONSTANTS
    None = None
    Sessions <- MCOneSession
    MaxCore = 1
    MaxInfo = 1
    StatusMessages = FALSE
INVARIANT StoppedIsOffline
CHECK_DEADLOCK FALSE
