SPECIFICATION Spec
CONSTANTS
    MaxEvents = 2
    MayFail <- NoFailure
    Driver = "ETH"
    IfIds = {0, 1}
    FailCodes <- AllFailCodes
    Prefixes <- TwoPrefixes
    Unspecified = "::"
    Configs <- ConfigsDynamic
    StartFails <- NoCall
INVARIANTS PrefixFollowsBackhaul
