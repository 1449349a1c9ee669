CONSTANTS
    Keys = {k1}
    NoKey = NoKey
    KeeperIds = {1, 2}
    T = 2
    PilotIds = {1, 2}
    Requests = {r1, r2, r3}
    MaxCrashes = 1
SPECIFICATION FairSpec
PROPERTY RestoreCompletes
