SPECIFICATION FairSpec
CONSTANTS
    MaxEvents = 2
    MayFail <- SlipFailures
    Driver = "SLIP"
    IfIds = {0, 1, 2}
    FailCodes <- AllFailCodes
    Prefixes <- TwoPrefixes
    Unspecified = "::"
    Configs <- ConfigsSlip
    StartFails <- NoCall
INVARIANTS ReadyMeansMesh
PROPERTIES MeshConnects
