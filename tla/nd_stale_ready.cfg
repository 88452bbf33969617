SPECIFICATION Spec
CONSTANTS
    MaxEvents = 2
    MayFail <- NoFailure
    Driver = "ETH"
    IfIds = {0, 1}
    FailCodes <- AllFailCodes
    Prefixes <- TwoPrefixes
    Unspecified = "::"
    Configs <- ConfigsOne
    StartFails <- NoCall
INVARIANTS ReadyMeansMesh
