SPECIFICATION Spec
CONSTANTS
    Tables <- SomeTables
    Prefixes <- TwoPrefixes
    Unspecified = "::"
INVARIANTS RplLifetimesDocumented
CHECK_DEADLOCK FALSE
