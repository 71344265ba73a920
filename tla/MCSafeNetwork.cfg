CONSTANTS
    a = a
    b = b
    k = k
    Safe = {a, b}
    Key = {k}
    AllowedTarget = "MultiSendCallOnly"
    Owners <- MCOwners
    Threshold <- MCThreshold
    Item <- MCItem
    Confirmed <- MCConfirmed
    Outside <- MCOutside
    InitialGuards = {"none", "reentrancy", "noDelegatecall"}
    InitialModules <- MCInitialModules
    MaxNonce = 2
    MaxDepth = 4
SPECIFICATION Spec
INVARIANTS NothingUnasked AllOrNothing ConsentOnly GuardedSafeKeepsCode SharedGuardHeld
CHECK_DEADLOCK FALSE
