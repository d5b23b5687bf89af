SPECIFICATION FairSpec
CONSTANTS
    None = None
    Sessions <- MCTwoSessions
    MaxCore = 1
    MaxInfo = 1
    StatusMessages = TRUE
INVARIANTS
    TypeOK
    OpenIsRegistered
    AvailabilityAgrees
    ShownIsCurrent
    NotLeftOnline
PROPERTIES
    AppearsInTheEnd
CHECK_DEADLOCK FALSE
