SPECIFICATION FairSpec
CONSTANTS
    Codes <- MCCodes
    Absent <- MCAbsent
    NItems = 4
    Start <- MCStart
    Type <- MCType
    First <- MCFirst
    Count <- MCCount
    Cuts <- MCCuts
INVARIANTS
    TypeOK
    CursorHome
    ReadExact
    NothingLost
PROPERTY
    Terminates
CHECK_DEADLOCK FALSE
