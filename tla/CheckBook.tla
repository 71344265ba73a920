----------------------------- MODULE CheckBook -----------------------------
(***************************************************************************)
(* What the off-chain check system promises (README, "Offchain check"): a  *)
(* book of single-use checks.  A check that is executed uses up its nonce, *)
(* and a used nonce stays with the check that used it; nothing else        *)
(* restricts the order in which checks are cashed.                         *)
(***************************************************************************)
CONSTANTS
    Nonce,
    Check,          \* records with a field checkNonce
    Blank           \* not a check: an unused nonce

VARIABLES
    stub,           \* the check that used each nonce
    intact          \* no delegatecalled code has written the register

vars == <<stub, intact>>

Init == stub = [n \in Nonce |-> Blank] /\ intact = TRUE

\* One transaction cashes some checks, all of them with fresh nonces and no
\* two with the same; a transaction that fails cashes none.
Cash(batch) ==
    /\ \A c \in batch : stub[c.checkNonce] = Blank
    /\ \A c, d \in batch : c.checkNonce = d.checkNonce => c = d
    /\ stub' = [n \in Nonce |->
                  IF \E c \in batch : c.checkNonce = n
                  THEN CHOOSE c \in batch : c.checkNonce = n
                  ELSE stub[n]]
    /\ UNCHANGED intact

\* Once foreign code has written the register, nothing is promised.
Tamper == intact' = FALSE /\ stub' \in [Nonce -> Check \cup {Blank}]

Next == (intact /\ \E batch \in SUBSET Check : Cash(batch)) \/ Tamper

Spec == Init /\ [][Next]_vars
============================================================================
