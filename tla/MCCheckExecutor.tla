--------------------------- MODULE MCCheckExecutor ---------------------------
\* The owners are a and the contract k.  A strict and a paid check share
\* nonce 1, a limited delegatecall and a check paid in ether share nonce 2;
\* a has signed all but the paid one, which it may approve on chain; k vouches
\* for the strict one as long as it likes.  k owns three of them and can nest
\* every pair of executions.
EXTENDS CheckExecutor

CONSTANTS a, k

Info(owner, n, op, gas, price) ==
    [checkOwner |-> owner, checkNonce |-> n, operation |-> op,
     safeTxGas |-> gas, gasPrice |-> price, gasToken |-> "token"]

Strict == Info(k, 1, "call", 0, 0)
Paid == Info(a, 1, "call", 0, 1)
Limited == Info(k, 2, "delegatecall", 1, 0)
Ether == [Info(k, 2, "call", 1, 1) EXCEPT !.gasToken = "ether"]

MCCheck == {Strict, Paid, Limited, Ether}
MCSigned == {a} \X (MCCheck \ {Paid})
MCApprovable == {<<a, Paid>>}
MCEndorsable == {<<k, Strict>>}
=============================================================================
