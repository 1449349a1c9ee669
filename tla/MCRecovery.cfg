CONSTANTS
    Keys = {k1, k2}
    NoKey = NoKey
    KeeperIds <- MCKeeperIds
    T = 2
    PilotIds <- MCPilotIds
    Requests = {r1, r2, r3}
    MaxCrashes = 2
SYMMETRY KeySymmetry
SPECIFICATION Spec
INVARIANT TypeOK
INVARIANT RootKeyIntegrity
INVARIANT KeeperShardIntegrity
PROPERTY ImplementsLifecycle
