SPECIFICATION FairSpec
CONSTANTS
    Absent = Absent
    Odd = Odd
    Container = Container
    Unknown = Unknown
    Factory <- MCFactory
    Quiet <- MCQuiet
    Presses <- MCPresses
    Commands <- MCCommands
    StateRefresh = 2
    InfoRefresh = 3
    MaxChanges = 2
    MaxDrops = 1
    MaxQueue = 2
INVARIANTS
    TypeOK
    NothingLost
    ShownIsKnown
    ShownAsAsked
    ShownIsOffered
    InfoInTime
PROPERTIES
    Converges
