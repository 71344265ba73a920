----------------------------- MODULE GnosisSafe -----------------------------
(***************************************************************************)
(* contracts/GnosisSafe.sol: the Safe after its setup, executing the       *)
(* transactions of its owners in the order of its nonce, and those of its  *)
(* modules at any time (contracts/base/ModuleManager.sol).                 *)
(*                                                                         *)
(* Calls in progress are on a stack with the storage that a revert brings  *)
(* back.  Whenever a called contract runs, the Safe may be entered again;  *)
(* while it calls itself, it may change its own configuration.             *)
(***************************************************************************)
EXTENDS Integers, Sequences, FiniteSets, TransactionGuards

CONSTANTS
    Account,        \* addresses: owners, senders
    Contract,       \* the accounts with code: only they act during a call
    Safe,           \* the Safe's own address
    Module,         \* addresses that may be enabled as modules
    Tx,             \* transactions to sign, without their nonce
    Confirmed,      \* <<a, t, n>>: a has confirmed the hash of t with nonce n
    Founders,       \* the owners after setup
    InitialGuards,  \* bound: guards the setup's delegatecall may install
    GuardChoices,   \* bound: guards that setGuard is given
    MaxDepth,       \* bound: nested calls
    MaxNonce        \* bound: transactions of the owners

TxFields ==
    [to : {"safe", "other", AllowedTarget}, operation : {"call", "delegatecall"},
     safeTxGas : {0, 1}, gasPrice : {0, 1}, gasToken : {"ether", "token"}]

Nonce == 0..(MaxNonce - 1)

ASSUME SafeAssumption ==
    /\ IsFiniteSet(Account) /\ Contract \subseteq Account /\ Safe \notin Account
    /\ Tx \subseteq TxFields
    /\ Founders \in SUBSET Account /\ Founders # {}
    /\ InitialGuards \subseteq Guard /\ GuardChoices \subseteq Guard
    /\ MaxDepth \in Nat /\ MaxNonce \in Nat

VARIABLES
    owners, threshold,  \* see OwnerManager
    nonce,
    modules,            \* the enabled modules (see ModuleManager)
    guard,              \* the word at GUARD_STORAGE_SLOT
    guards,             \* storage of the guard contracts
    ledger,             \* history: per nonce, the transactions run and the payments
    stack               \* calls in progress, outermost first

vars == <<owners, threshold, nonce, modules, guard, guards, ledger, stack>>

Storage ==
    [owners |-> owners, threshold |-> threshold, nonce |-> nonce,
     modules |-> modules, guard |-> guard, guards |-> guards, ledger |-> ledger]

Restore(s) ==
    /\ owners' = s.owners /\ threshold' = s.threshold /\ nonce' = s.nonce
    /\ modules' = s.modules /\ guard' = s.guard /\ guards' = s.guards
    /\ ledger' = s.ledger

Registry == INSTANCE OwnerRegistry WITH
    Owner <- Account, ownerSet <- owners, quorum <- threshold

Top == stack[Len(stack)]
Rest == SubSeq(stack, 1, Len(stack) - 1)
InPhase(p) == stack # <<>> /\ Top.phase = p

ControlOutside ==
    stack # <<>> =>
        (Top.phase = "inner" \/ (Top.phase = "payment" /\ Top.tx.gasToken = "token"))

\* During a call only code acts, the Safe's own included.
MaySend(sender) == stack # <<>> => sender \in Contract \cup {Safe}

Blank == [runs |-> <<>>, paid |-> 0]

Init ==
    /\ owners = Founders /\ threshold \in 1..Cardinality(Founders)
    /\ nonce = 0
    /\ modules \in SUBSET Module
    /\ guard \in InitialGuards /\ guards = FreshGuards
    /\ ledger = [n \in Nonce |-> Blank]
    /\ stack = <<>>

-----------------------------------------------------------------------------
(* execTransaction *)

\* CheckSignatures: the hash covers the nonce, and the sender of the call
\* needs no signature of its own.
checkSignatures(sender, t, n) ==
    /\ threshold > 0
    /\ Cardinality({o \in owners : o = sender \/ <<o, t, n>> \in Confirmed}) >= threshold

\* Mutant of NextNonce: the nonce is not increased.
NonceKept == nonce

NextNonce == nonce + 1

\* The guard is read once; the same one is asked again at the end.
execTransaction(sender, t) ==
    /\ ControlOutside /\ MaySend(sender)
    /\ Len(stack) < MaxDepth /\ nonce < MaxNonce
    /\ checkSignatures(sender, t, nonce)
    /\ Allows(guard, guards, t)
    /\ nonce' = NextNonce
    /\ guards' = Entered(guard, guards, t, nonce)
    /\ stack' = Append(stack, [kind |-> "owners", tx |-> t, nonce |-> nonce,
                               guard |-> guard, phase |-> "inner", before |-> Storage,
                               inside |-> [Storage EXCEPT !.nonce = nonce', !.guards = guards']])
    /\ UNCHANGED <<owners, threshold, modules, guard, ledger>>

\* Mutant of RevertCall: the nonce stays used.
RevertKeepsNonce ==
    /\ Restore([Top.before EXCEPT !.nonce = nonce])
    /\ stack' = Rest

\* The whole call reverts.
RevertCall == Restore(Top.before) /\ stack' = Rest

\* Mutant of FailureTolerated: GS013 dropped.
AnyFailureTolerated(t) == TRUE

\* GS013
FailureTolerated(t) == t.safeTxGas # 0 \/ t.gasPrice # 0

NextPhase(f) == IF f.tx.gasPrice > 0 THEN "payment" ELSE "after"

Proceed == stack' = [stack EXCEPT ![Len(stack)].phase = NextPhase(Top)]

CallSucceeds ==
    /\ InPhase("inner") /\ Top.kind = "owners"
    /\ ledger' = [ledger EXCEPT ![Top.nonce].runs = Append(@, [tx |-> Top.tx, ok |-> TRUE])]
    /\ Proceed
    /\ UNCHANGED <<owners, threshold, nonce, modules, guard, guards>>

\* The failed call takes its own effects back, not those of execTransaction.
CallFails ==
    /\ InPhase("inner") /\ Top.kind = "owners"
    /\ IF FailureTolerated(Top.tx)
       THEN /\ Restore([Top.inside EXCEPT !.ledger[Top.nonce].runs = Append(@, [tx |-> Top.tx, ok |-> FALSE])])
            /\ Proceed
       ELSE RevertCall

PaymentSucceeds ==
    /\ InPhase("payment")
    /\ ledger' = [ledger EXCEPT ![Top.nonce].paid = @ + 1]
    /\ stack' = [stack EXCEPT ![Len(stack)].phase = "after"]
    /\ UNCHANGED <<owners, threshold, nonce, modules, guard, guards>>

\* GS011, GS012
PaymentFails == InPhase("payment") /\ RevertCall

\* Mutant of FinalGuard: the slot is read again after the call.
GuardReadAgain == guard

\* The guard whose checkAfterExecution is called.
FinalGuard == Top.guard

\* checkAfterExecution of the guard may still revert everything.
Complete ==
    /\ InPhase("after")
    /\ IF Releases(FinalGuard, guards, Top.tx, Top.nonce)
       THEN /\ guards' = Left(FinalGuard, guards, Top.tx, Top.nonce)
            /\ stack' = Rest
            /\ UNCHANGED <<owners, threshold, nonce, modules, guard, ledger>>
       ELSE RevertCall

\* GS010 or gas that runs out later.
OutOfGas == stack # <<>> /\ RevertCall

-----------------------------------------------------------------------------
(* execTransactionFromModule: no signature, no nonce, no guard. *)

\* The transactions of a module differ for the Safe only in whether they
\* can reach its own functions.
ModuleTx(own) ==
    [to |-> IF own THEN "safe" ELSE "other", operation |-> "call",
     safeTxGas |-> 0, gasPrice |-> 0, gasToken |-> "ether"]

\* GS104
execTransactionFromModule(m, own) ==
    /\ ControlOutside
    /\ Len(stack) < MaxDepth
    /\ m \in modules
    /\ stack' = Append(stack, [kind |-> "module", tx |-> ModuleTx(own), nonce |-> nonce,
                               guard |-> "none", phase |-> "inner", before |-> Storage,
                               inside |-> Storage])
    /\ UNCHANGED <<owners, threshold, nonce, modules, guard, guards, ledger>>

\* A failure is reported to the module and undone.
ModuleReturns(success) ==
    /\ InPhase("inner") /\ Top.kind = "module"
    /\ IF success
       THEN /\ stack' = Rest
            /\ UNCHANGED <<owners, threshold, nonce, modules, guard, guards, ledger>>
       ELSE RevertCall

-----------------------------------------------------------------------------
(* The functions of the Safe marked `authorized`. *)

\* The Safe is msg.sender: it calls itself, or delegatecalled code such as
\* MultiSend calls in its name.
Authorized == InPhase("inner") /\ (Top.tx.to = "safe" \/ Top.tx.operation = "delegatecall")

ChangeOwners ==
    /\ Authorized
    /\ \E S \in SUBSET Account, q \in 1..Cardinality(Account) : Registry!Enact(S, q)
    /\ UNCHANGED <<nonce, modules, guard, guards, ledger, stack>>

enableModule(m) ==
    /\ Authorized /\ m \notin modules
    /\ modules' = modules \cup {m}
    /\ UNCHANGED <<owners, threshold, nonce, guard, guards, ledger, stack>>

disableModule(m) ==
    /\ Authorized /\ m \in modules
    /\ modules' = modules \ {m}
    /\ UNCHANGED <<owners, threshold, nonce, guard, guards, ledger, stack>>

setGuard(g) ==
    /\ Authorized
    /\ guard' = g
    /\ UNCHANGED <<owners, threshold, nonce, modules, guards, ledger, stack>>

Next ==
    \/ \E sender \in Account \cup {Safe}, t \in Tx : execTransaction(sender, t)
    \/ CallSucceeds
    \/ CallFails
    \/ PaymentSucceeds
    \/ PaymentFails
    \/ Complete
    \/ OutOfGas
    \/ \E m \in Module, own \in BOOLEAN : execTransactionFromModule(m, own)
    \/ \E success \in BOOLEAN : ModuleReturns(success)
    \/ ChangeOwners
    \/ \E m \in Module : enableModule(m) \/ disableModule(m)
    \/ \E g \in GuardChoices : setGuard(g)

Spec == Init /\ [][Next]_vars

-----------------------------------------------------------------------------
(* Properties *)

StorageType ==
    [owners : SUBSET Account, threshold : Nat, nonce : 0..MaxNonce,
     modules : SUBSET Module, guard : Guard,
     guards : [active : BOOLEAN, txNonces : SUBSET (Tx \X Nonce)],
     ledger : [Nonce -> [runs : Seq([tx : Tx, ok : BOOLEAN]), paid : Nat]]]

FrameType ==
    [kind : {"owners", "module"}, tx : TxFields, nonce : 0..MaxNonce, guard : Guard,
     phase : {"inner", "payment", "after"}, before : StorageType, inside : StorageType]

TypeOK == Storage \in StorageType /\ stack \in Seq(FrameType)

\* No nonce runs two transactions, in any nesting of calls from contracts,
\* modules and the Safe itself and after any reverts: a set of confirmations
\* is good for one execution.
NonceRunsOnce == \A n \in Nonce : Len(ledger[n].runs) <= 1

\* Between transactions exactly the nonces below the current one have run:
\* a reverted transaction has not used its nonce, a failed one has.
NoncesExact ==
    stack = <<>> => \A n \in Nonce : ledger[n].runs # <<>> <=> n < nonce

\* Between transactions every transaction with a gas price has been paid
\* exactly once, whether its call succeeded or not, and no other has; and no
\* transaction that must succeed has used its nonce up by failing.
RunsSettled ==
    stack = <<>> =>
        \A n \in Nonce :
            LET runs == ledger[n].runs
                paying == {j \in DOMAIN runs : runs[j].tx.gasPrice > 0}
            IN  /\ ledger[n].paid = Cardinality(paying)
                /\ \A j \in DOMAIN runs \ paying : runs[j].tx.safeTxGas = 0 => runs[j].ok

\* ReentrancyTransactionGuard is free again between transactions, whatever
\* the transaction did to the Safe's guard: otherwise the Safe is locked.
GuardReleased == stack = <<>> => ~guards.active /\ guards.txNonces = {}

Settled == IF stack = <<>> THEN Storage ELSE stack[1].before

\* The last transaction that ran with each nonce, in the order of the nonces.
SettledLog ==
    LET used == {n \in Nonce : Settled.ledger[n].runs # <<>>}
        Last(runs) == runs[Len(runs)]
    IN  [i \in 1..Cardinality(used) |-> Last(Settled.ledger[i - 1].runs).tx]

Log == INSTANCE TransactionLog WITH log <- SettledLog

\* Seen between transactions, the Safe keeps a log that only grows, the
\* position of a transaction being the nonce its owners signed for: no later
\* transaction takes a settled place.
LogSpec == Log!Spec

\* A transaction that DebugTransactionGuard has recorded passes its check at
\* the end, whatever failed or was nested in between; only nonce 0, which the
\* guard takes for no record (DebugTransactionGuard.sol:61), never does.
RecordedTxEnds ==
    InPhase("after") =>
        (Releases(Top.guard, guards, Top.tx, Top.nonce) <=> Top.guard # "debug" \/ Top.nonce # 0)
=============================================================================
