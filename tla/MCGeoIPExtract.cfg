SPECIFICATION Spec
CONSTANTS
    Codes <- MCCodes
    Nets <- MCNets
    Files <- MCFiles
    Wants <- MCWants
    IPs <- MCIPs
    Modes = {TRUE, FALSE}
INVARIANTS
    TypeOK
    ExtractExact
    QXExact
    FindIPExact
    
CHECK_DEADLOCK FALSE
