SPECIFICATION Spec
CONSTANTS
    MaxEvents = 2
    MayFail <- MeshFailures
    Driver = "ETH"
    IfIds = {0, 1}
    FailCodes <- AllFailCodes
    Prefixes <- TwoPrefixes
    Unspecified = "::"
    Configs <- ConfigsMesh
    StartFails <- AnyCall
INVARIANTS MeshFullyConfigured MeshStartedOnce MeshHasRpl
PROPERTIES MeshConfigFrozen MeshStartsOnBackhaul
