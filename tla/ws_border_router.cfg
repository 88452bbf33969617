SPECIFICATION FairSpec
CONSTANTS
    MaxEvents = 2
    MayFail <- AllButLoss
    Driver = "CELL"
    IfIds = {0, 1}
    FailCodes <- AllFailCodes
    Prefixes <- OnePrefix
    Unspecified = "::"
    BackhaulPrefix = "fd01"
    Autonomous = FALSE
    Builds = {TRUE, FALSE}
    WsConfigs <- Configs
INVARIANTS TypeOK NoOrphanInterface LinkViewConverges ReadyIsInService MeshMatchesConfig
PROPERTIES RefinesService BackhaulFollowsLink
CHECK_DEADLOCK FALSE
