SPECIFICATION FairSpec
CONSTANTS
    Base = 4
    MaxVarint = 2
    HeaderLen = 5
    Files <- MCFiles
INVARIANTS
    TypeOK
    IndexSound
    IndexComplete
PROPERTY
    Terminates
CHECK_DEADLOCK FALSE
