CONSTANTS
    Ids <- MCIds
    Paths <- MCPaths
    Literals <- MCLiterals
    Wildcard = Wildcard
    PilotIds <- MCPilotIds
    RecoverIds <- MCPilotIds
    ValidIds <- MCValidIds
    ValidPaths <- MCPaths
    AclPath <- MCAclPath
    MaxPolicies = 2
SPECIFICATION Spec
INVARIANT GuardsRejectInvalidIds
