SPECIFICATION FairSpec
CONSTANTS
    Base = 4
    MaxVarint = 2
    HeaderLen = 5
    Files <- MCFiles
    Codes <- MCCodes
INVARIANTS
    TypeOK
    FindsFirst
    ListsNames
    PanicsOnlyOnHollow
PROPERTY
    Terminates
CHECK_DEADLOCK FALSE
