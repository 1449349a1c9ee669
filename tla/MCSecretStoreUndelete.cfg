CONSTANTS
    d1 = d1
    d2 = d2
    p1 = p1
    NaN = NaN
    Paths <- MCPaths
    Values <- MCValues
    MaxSecretVersions = 3
    MaxVersion = 5
    NotANumber = NaN
    DeleteLists <- MCDeleteLists
    UndeleteFlags <- MCUndeleteFlags
    GetVersions <- MCGetVersions
SYMMETRY ValueSymmetry
SPECIFICATION Spec

PROPERTY UndeleteRestores
