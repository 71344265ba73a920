-------------------------- MODULE TransactionGuards --------------------------
(***************************************************************************)
(* The guards of contracts/examples/guards as operators on their storage:  *)
(* what checkTransaction demands and leaves before a Safe transaction, and *)
(* checkAfterExecution after it.  A transaction's hash is the pair of the  *)
(* transaction and its nonce.                                              *)
(***************************************************************************)
EXTENDS Integers

CONSTANT
    AllowedTarget   \* what DelegateCallTransactionGuard lets a Safe delegate to

Guard == {"none", "reentrancy", "debug", "noDelegatecall"}

\* active: the flag of ReentrancyTransactionGuard.  txNonces: the hashes
\* with a non-zero entry in the mapping of DebugTransactionGuard.
FreshGuards == [active |-> FALSE, txNonces |-> {}]

-----------------------------------------------------------------------------
(* What each of them looks at and leaves. *)

Raise(storage) == [storage EXCEPT !.active = TRUE]
Lower(storage) == [storage EXCEPT !.active = FALSE]

\* An entry whose value is nonce 0 is as good as none.
Record(storage, tx, n) ==
    IF n # 0 THEN [storage EXCEPT !.txNonces = @ \cup {<<tx, n>>}] ELSE storage

Erase(storage, tx, n) == [storage EXCEPT !.txNonces = @ \ {<<tx, n>>}]

MayDelegate(tx) == tx.operation # "delegatecall" \/ tx.to = AllowedTarget

-----------------------------------------------------------------------------
(* The guard of a Safe, by its name. *)

\* Mutant of Allows: ReentrancyTransactionGuard does not look at its flag.
AllowsReentry(guard, storage, tx) == guard = "noDelegatecall" => MayDelegate(tx)

\* The transaction may start.
Allows(guard, storage, tx) ==
    /\ guard = "reentrancy" => ~storage.active
    /\ guard = "noDelegatecall" => MayDelegate(tx)

\* Mutant of Entered: DebugTransactionGuard forgets that the nonce of the
\* Safe has been increased already.
EnteredNextNonce(guard, storage, tx, n) ==
    CASE guard = "reentrancy" -> Raise(storage)
      [] guard = "debug" -> Record(storage, tx, n + 1)
      [] OTHER -> storage

\* checkTransaction
Entered(guard, storage, tx, n) ==
    CASE guard = "reentrancy" -> Raise(storage)
      [] guard = "debug" -> Record(storage, tx, n)
      [] OTHER -> storage

\* checkAfterExecution lets the transaction end.
Releases(guard, storage, tx, n) == guard = "debug" => <<tx, n>> \in storage.txNonces

Left(guard, storage, tx, n) ==
    CASE guard = "reentrancy" -> Lower(storage)
      [] guard = "debug" -> Erase(storage, tx, n)
      [] OTHER -> storage
==============================================================================
