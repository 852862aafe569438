SPECIFICATION FairSpec
CONSTANTS
    IfaceLists <- MCIfaceLists
    FrrStates <- MCFrrStates
    VrfOrder <- MCVrfOrder
    PeerOrder <- MCPeerOrder
    SyncUnits <- MCSyncUnits
    Letters = {"r"}
    MaxIndex = 4
    Page = 3
    MaxFilter = 1
    MaxQueue = 1
    MaxPresses = 4
    MaxChanges = 1
    None = None
INVARIANTS
    TypeOK
    AskedIsShown
PROPERTIES
    NoSwapUnderKeys
    EventuallyAnswered
CHECK_DEADLOCK FALSE
