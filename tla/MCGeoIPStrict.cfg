SPECIFICATION Spec
CONSTANTS
    Codes <- MCCodes
    Nets <- MCNets
    Files <- MCFiles
    Wants <- MCWants
    IPs <- MCIPs
    Modes = {TRUE}
INVARIANT StrictMode
CHECK_DEADLOCK FALSE
