SPECIFICATION Spec
CONSTANTS
    Now = Now
    Keywords <- MCKeywords
    Variables <- MCVariables
    Integers64 <- MCIntegers
    Floats64 <- MCFloats
    IntVal <- MCIntVal
    Collation <- MCCollation
    Schema <- MCSchema
    NoQuery <- MCNoQuery
    Databases <- MCDatabases
    Requests <- MCRequests
INVARIANTS
    AnswerIsRight
    ParsedAsWritten
    ReadsWhatIsThere
CHECK_DEADLOCK FALSE
