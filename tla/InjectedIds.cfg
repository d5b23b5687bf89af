SPECIFICATION Spec
CONSTANTS
    RangeSize = 4
    MaxPending = 2
    CloudIds <- MCCloudIds
    MaxInjects = 7
    MaxUnacked = 2
INVARIANTS
    TypeOK
    TableIsBounded
    OutstandingIsOnRecord
PROPERTIES
    LeaksNeedALoss
    EvictsOnlyTheOldest
CHECK_DEADLOCK FALSE
