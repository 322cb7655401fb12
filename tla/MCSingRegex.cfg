SPECIFICATION FairSpec
CONSTANTS
    Codes <- MCCodes
    Absent <- MCAbsent
    NItems = 4
    Start <- MCStart
    Type <- MCType
    First <- MCFirst
    Count <- MCCount
    Cuts <- MCCuts
INVARIANT RegexAllowed
CHECK_DEADLOCK FALSE
