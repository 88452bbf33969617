SPECIFICATION Spec
CONSTANTS
    MaxEvents = 2
    MayFail <- AllButLoss
    Driver = "EMAC"
    IfIds = {0, 1, 2}
    FailCodes <- AllFailCodes
    Prefixes <- OnePrefix
    Unspecified = "::"
    BackhaulPrefix = "fd01"
    Autonomous = FALSE
    Builds = {TRUE, FALSE}
INVARIANTS TypeOK BbrServesCurrentPair LinkViewConverges NoOrphanInterface ReadyIsInService
PROPERTIES RefinesService
CHECK_DEADLOCK FALSE
