SPECIFICATION Spec
CONSTANTS
    Dom <- MCDom
    Attrs = {1}
    Databases <- MCDatabases
    RuleSets <- RuleBases
INVARIANT BaseIsComplete
PROPERTY DerivedIsSound
CHECK_DEADLOCK FALSE
