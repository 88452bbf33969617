SPECIFICATION FairSpec
CONSTANTS
    MaxEvents = 2
    MayFail <- NoFailure
    Driver = "ETH"
    IfIds = {0, 1}
    FailCodes <- AllFailCodes
    Prefixes <- OnePrefix
    Unspecified = "::"
    BackhaulPrefix = "fd01"
    Autonomous = TRUE
    Builds = {TRUE}
PROPERTIES BackhaulFollowsLink
