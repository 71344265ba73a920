CONSTANTS
    h1 = h1
    h2 = h2
    d1 = d1
    d2 = d2
    Hash = {h1, h2}
    Data = {d1, d2}
    Account <- MCAccount
    Signed <- MCSigned
    Endorsable <- MCEndorsable
    OwnerSets <- MCOwnerSets
    Caller <- MCCaller
    MaxSignatures = 3
    MaxApprovals = 2
SPECIFICATION Spec
INVARIANTS QuorumSound LoopDecides QuorumPresentable
