SPECIFICATION Spec
CONSTANTS
    Codes <- MCCodes
    Nets <- MCNets
    Files <- MCFiles
    Wants <- MCWants
    IPs <- MCIPs
    Modes = {FALSE}
INVARIANT FamilyFilter
CHECK_DEADLOCK FALSE
