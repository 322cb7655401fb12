SPECIFICATION Spec
CONSTANTS
    Words <- MCWords
    Attrs <- MCAttrs
    Files <- MCFiles
    Lists <- MCLists
    Undotted <- MCUndotted
    Hits <- MCHits
    BadRegexes = {"bad"}
    Batch = 2
    CodeOrder <- MCOrder
INVARIANTS
    TypeOK
    ExtractExact
    ConvertExact
    ToGeositeExact
    LookupExact
    EndsRight
CHECK_DEADLOCK FALSE
