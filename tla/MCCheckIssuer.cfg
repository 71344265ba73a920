CONSTANTS
    Signer = {2, 3, 4}
    Parity <- MCParity
    Owners = {2, 3}
    Threshold = 2
    Params <- MCParams
    SignerList <- MCSignerList
    MaxTime = 1
    MaxChecks = 2
SPECIFICATION IssuerSpec
INVARIANTS IssuedAccepted DistinctIndependent
CHECK_DEADLOCK FALSE
