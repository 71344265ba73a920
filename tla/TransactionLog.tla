--------------------------- MODULE TransactionLog ---------------------------
(***************************************************************************)
(* What a Safe promises about its own transactions: a log that only grows, *)
(* in which the position of a transaction is its nonce.                    *)
(***************************************************************************)
EXTENDS Integers, Sequences

CONSTANT Tx

VARIABLE log

Init == log = <<>>

\* One transaction of the chain runs any number of Safe transactions (they
\* may nest); the position of each is settled once and for all.
Extend ==
    /\ log' \in Seq(Tx)
    /\ Len(log') >= Len(log)
    /\ SubSeq(log', 1, Len(log)) = log

Spec == Init /\ [][Extend]_log
=============================================================================
