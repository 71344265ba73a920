----------------------------- MODULE MCGnosisSafe -----------------------------
\* A call that must succeed and can change the Safe, and a delegatecall that
\* may fail and pays in a token; a has confirmed both of them for every
\* nonce, k only confirms what it sends.
EXTENDS GnosisSafe

CONSTANTS a, k, m

Own == [to |-> "safe", operation |-> "call", safeTxGas |-> 0, gasPrice |-> 0, gasToken |-> "ether"]
Batch == [to |-> "other", operation |-> "delegatecall", safeTxGas |-> 1, gasPrice |-> 1, gasToken |-> "token"]

MCTx == {Own, Batch}
MCConfirmed == {a} \X MCTx \X Nonce
=============================================================================
