---------------------------- MODULE MCSafeNetwork ----------------------------
(* The Safe a, which the key k and the Safe b own, is the only owner of b.   *)
(* k has signed transactions of a, so that anyone may send them in any       *)
(* order, and messages of a; b acts on the word of a alone, and the word of  *)
(* b is enough for a.                                                        *)
EXTENDS SafeNetwork

CONSTANTS a, b, k

Delegate(to, data) == [to |-> to, operation |-> "delegatecall", data |-> data]
Transaction(item, tolerant) == [item |-> item, tolerant |-> tolerant]
Exec(s, tx) == Send(s, [execTransaction |-> tx])
CallOnly(items) == Delegate("MultiSendCallOnly", [multiSend |-> items])
Batch(items) == Delegate("MultiSend", [multiSend |-> items])

Touch == Send("other", [touch |-> TRUE])
Errand == Transaction(Touch, FALSE)
Sign == Delegate("SignMessageLib", [signMessage |-> txHash(b, Errand, 0)])
Migrate == Delegate("Migration", [migrate |-> TRUE])
Lift == Send(a, [setGuard |-> "none"])
Hold == Send(a, [setGuard |-> "reentrancy"])
Close == Send(a, [setFallbackHandler |-> FALSE])
Join == Send(a, [enableModule |-> "outside"])
Leave == Send(a, [disableModule |-> "outside"])
Approve == Send(b, [approveHash |-> txHash(b, Errand, 0)])

Trial == Delegate("SimulateTxAccessor", [simulate |-> Batch(<<Touch, Sign>>)])

ActForB == Transaction(CallOnly(<<Exec(b, Errand), Hold>>), FALSE)

TxOfA ==
    {Transaction(Batch(<<Touch, Batch(<<Sign, Touch>>)>>), TRUE), ActForB,
     Transaction(CallOnly(<<Lift, Close>>), FALSE), Transaction(CallOnly(<<Migrate>>), TRUE),
     Transaction(Migrate, FALSE), Transaction(Trial, FALSE), Transaction(Approve, FALSE),
     Transaction(Join, FALSE)}

\* What no owner of a has signed as a transaction: k, as a message of a for
\* a contract signature within one of b.
Nested == Transaction(Touch, TRUE)

\* The orders of a module of a.
Orders == {Migrate, Batch(<<Exec(b, Errand), Sign, Leave>>)}

MCOwners == [s \in Safe |-> IF s = a THEN {k, b} ELSE {a}]
MCThreshold == [s \in Safe |-> 1]
MCConfirmed ==
    {<<k, txHash(a, tx, n)>> : tx \in TxOfA, n \in 0..(MaxNonce - 1)}
    \cup {<<k, messageHash(a, h)>> : h \in {txHash(b, Errand, 1), txHash(a, Nested, 1)}}
MCInitialModules == {[s \in Safe |-> {}], [s \in Safe |-> IF s = a THEN {"outside"} ELSE {}]}

\* The last one is too deep for the Errand inside.
Simulated ==
    {Sign, Batch(<<Exec(b, Errand), Sign>>), Migrate, Exec(b, Errand),
     Delegate("SimulateTxAccessor", [simulate |-> Exec(b, Errand)]),
     Batch(<<Exec(a, ActForB)>>)}

MCOutside ==
    {Exec(a, tx) : tx \in TxOfA} \cup {Exec(a, Nested), Exec(b, Errand), Approve}
    \cup {Send(a, [execTransactionFromModule |-> order]) : order \in Orders}
    \cup {Send(a, [simulateAndRevert |-> s]) : s \in Simulated}
    \cup {Send(a, [simulateByHandler |-> Sign]), Lift}
    \cup {Send("MultiSend", [multiSend |-> <<Migrate>>]),
          Send("MultiSendCallOnly", [multiSend |-> <<Exec(b, Errand)>>]),
          Send("SignMessageLib", Sign.data),
          Send("Migration", Migrate.data),
          Send("SimulateTxAccessor", [simulate |-> Touch])}

MCItem ==
    MCOutside \cup Simulated \cup {tx.item : tx \in TxOfA} \cup Orders
    \cup {Touch, Hold, Close, Join, Leave, Batch(<<Sign, Touch>>), Batch(<<Touch, Sign>>)}
==============================================================================
