SPECIFICATION FairSpec
CONSTANTS
    MaxEvents = 2
    MayFail <- LinkFailures
    Driver = "ETH"
    IfIds = {0, 1, 2}
    FailCodes <- AllFailCodes
    Prefixes <- TwoPrefixes
    Unspecified = "::"
    Configs <- ConfigsBackhaul
    StartFails <- NoCall
INVARIANTS LinkViewConverges
PROPERTIES BackhaulFollowsLink
CHECK_DEADLOCK FALSE
