CONSTANTS
    a = a
    k = k
    Account = {a, k}
    Contract = {k}
    Nonce = {1, 2}
    Check <- MCCheck
    Signed <- MCSigned
    Approvable <- MCApprovable
    Endorsable <- MCEndorsable
    Founders = {a, k}
    Blank = Blank
    MaxDepth = 2
    MaxUses = 3
SPECIFICATION Spec
INVARIANTS NonceUsedOnce RegisterExact UsesSettled
PROPERTIES OrderIrrelevant BookSpec
