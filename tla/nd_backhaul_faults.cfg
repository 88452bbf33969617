SPECIFICATION Spec
CONSTANTS
    MaxEvents = 2
    MayFail <- AllFailures
    Driver = "EMAC"
    IfIds = {0, 1}
    FailCodes <- AllFailCodes
    Prefixes <- TwoPrefixes
    Unspecified = "::"
    Configs <- ConfigsBackhaul
    StartFails <- NoCall
INVARIANTS TypeOK BackhaulStateAgrees NoOrphanInterface
PROPERTIES RefinesService
CHECK_DEADLOCK FALSE
