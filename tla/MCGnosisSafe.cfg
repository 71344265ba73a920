CONSTANTS
    a = a
    k = k
    Safe = Safe
    m = m
    Account = {a, k}
    Contract = {k}
    Module = {m}
    Tx <- MCTx
    Confirmed <- MCConfirmed
    Founders = {a, k}
    InitialGuards = {"none", "noDelegatecall"}
    GuardChoices = {"none", "reentrancy", "debug"}
    AllowedTarget = "library"
    MaxDepth = 2
    MaxNonce = 2
SPECIFICATION Spec
INVARIANTS NonceRunsOnce NoncesExact RunsSettled GuardReleased RecordedTxEnds
PROPERTY LogSpec
CHECK_DEADLOCK FALSE
