CONSTANTS
    Keys = {k1, k2}
    NoKey = NoKey
    KeeperIds <- MCKeeperIds
    T = 2
    PilotIds <- MCPilotIds
    Requests = {r1}
    MaxCrashes = 2
SPECIFICATION FairSpec
PROPERTY KeepersEventuallyHoldShards
