SPECIFICATION Spec
CONSTANTS
    Tables <- SomeTables
    Prefixes <- TwoPrefixes
    Unspecified = "::"
INVARIANTS TypeOK LookupIsFirstMatch ChannelsAsConfigured OptionsReachMesh DodagIdIsOwnAddress
PROPERTIES ImplementsNDLoadConfig
CHECK_DEADLOCK FALSE
