---------------------------- MODULE CheckExecutor ----------------------------
(***************************************************************************)
(* contracts/CheckExecutor.sol with the wallet whose owners sign its       *)
(* checks.  The checks that the owners sign off chain are executed one by  *)
(* one, in any order, by their check owners.                               *)
(*                                                                         *)
(* A call of executeCheck is not one step: while the called contract or    *)
(* the token of the payment runs, control is outside, and executeCheck may *)
(* be entered again or the wallet may change its owners.  The stack holds  *)
(* the calls in progress with the storage to return to when one reverts.   *)
(***************************************************************************)
EXTENDS Integers, Sequences, FiniteSets

LOCAL INSTANCE FiniteSetsExt

CONSTANTS
    Account,        \* addresses: owners of the wallet and of checks
    Contract,       \* the accounts with code: only they act during a call
    Nonce,
    Check,          \* the checks that exist; the signed hash covers every field
    Signed,         \* <<a, c>>: a's key has signed the hash of c off chain
    Approvable,     \* bound: <<a, c>> for which a may approve the hash of c
    Endorsable,     \* bound: <<a, c>> for which the contract a may vouch for c
    Founders,       \* the owners the wallet starts with
    Blank,          \* stands for no check
    MaxDepth,       \* bound: nested calls of executeCheck
    MaxUses         \* bound: executions

\* Fields of CheckInfo, those that are only passed on left out; gas and
\* price matter as far as they are zero.
CheckInfo ==
    [checkOwner : Account, checkNonce : Nonce,
     operation : {"call", "delegatecall"},
     safeTxGas : {0, 1}, gasPrice : {0, 1}, gasToken : {"ether", "token"}]

ASSUME CheckAssumption ==
    /\ IsFiniteSet(Account) /\ Contract \subseteq Account
    /\ Check \subseteq CheckInfo /\ Blank \notin Check
    /\ Signed \subseteq (Account \ Contract) \X Check
    /\ Approvable \subseteq Account \X Check
    /\ Endorsable \subseteq Contract \X Check
    /\ Founders \in SUBSET Account /\ Founders # {}
    /\ MaxDepth \in Nat /\ MaxUses \in Nat

VARIABLES
    register,       \* the nonces true in executedCheckNonceRegister
    owners,         \* the wallet's owners and threshold (see OwnerManager)
    threshold,
    approved,       \* <<a, c>>: the hash of c among a's approvedHashes
    endorsed,       \* <<a, c>>: isValidSignature of the contract a, asked about
                    \* c now, accepts; its storage and code may change that
    ledger,         \* history: what was done for each check
    tampered,       \* history: delegatecalled code wrote the register
    stack           \* calls of executeCheck in progress, outermost first

vars == <<register, owners, threshold, approved, endorsed, ledger, tampered, stack>>

\* Everything a revert takes back.
Storage ==
    [register |-> register, owners |-> owners, threshold |-> threshold,
     approved |-> approved, endorsed |-> endorsed,
     ledger |-> ledger, tampered |-> tampered]

Restore(s) ==
    /\ register' = s.register /\ owners' = s.owners /\ threshold' = s.threshold
    /\ approved' = s.approved /\ endorsed' = s.endorsed
    /\ ledger' = s.ledger /\ tampered' = s.tampered

Registry == INSTANCE OwnerRegistry WITH
    Owner <- Account, ownerSet <- owners, quorum <- threshold

Top == stack[Len(stack)]
Rest == SubSeq(stack, 1, Len(stack) - 1)

\* The caller acts: before any call, in the check's own call, or in the call
\* of a token; ether is sent with too little gas to act on.
ControlOutside ==
    stack # <<>> =>
        (Top.phase = "inner" \/ Top.check.gasToken = "token")

Unused == [succeeded |-> 0, failed |-> 0, paid |-> 0]
Uses(c) == ledger[c].succeeded + ledger[c].failed

Init ==
    /\ register = {} /\ tampered = FALSE
    /\ owners = Founders
    /\ threshold \in 1..Cardinality(Founders)
    /\ approved = {} /\ endorsed \in SUBSET Endorsable
    /\ ledger = [c \in Check |-> Unused]
    /\ stack = <<>>

-----------------------------------------------------------------------------
(* executeCheck *)

\* The confirmations of this moment: a signature stays, an approved hash too,
\* but a contract is asked again every time.
Confirmed == Signed \cup approved \cup endorsed

\* The wallet's own checkSignatures, called by the executor with the hash and
\* the bytes it has hashed (see CheckSignatures).
checkSignatures(c) ==
    /\ threshold > 0
    /\ Cardinality({o \in owners : <<o, c>> \in Confirmed}) >= threshold

\* Mutant of checkValidity: C200 dropped.
checkValidityOfSignatures(c) == checkSignatures(c)

\* C200 and the signatures; who asks makes no difference.
checkValidity(c) == c.checkNonce \notin register /\ checkSignatures(c)

\* C201
MayExecute(sender, c) == checkValidity(c) /\ sender = c.checkOwner

\* Mutants of Registered: the nonce is not registered; all the nonces below
\* are used up as well.
NotRegistered(c) == register
RegisteredInOrder(c) == register \cup {n \in Nonce : n <= c.checkNonce}

Registered(c) == register \cup {c.checkNonce}

executeCheck(sender, c) ==
    /\ ControlOutside /\ Len(stack) < MaxDepth /\ MapThenSumSet(Uses, Check) < MaxUses
    /\ stack # <<>> => sender \in Contract
    /\ MayExecute(sender, c)
    /\ register' = Registered(c)
    /\ stack' = Append(stack, [check |-> c, phase |-> "inner", before |-> Storage])
    /\ UNCHANGED <<owners, threshold, approved, endorsed, ledger, tampered>>

\* Mutant of RevertCall: the nonce stays registered.
RevertKeepsNonce ==
    /\ Restore([Top.before EXCEPT !.register = register])
    /\ stack' = Rest

\* The whole call reverts.
RevertCall == Restore(Top.before) /\ stack' = Rest

\* After the check's own call: the payment, if there is a price.
Proceed ==
    stack' = IF Top.check.gasPrice > 0
             THEN [stack EXCEPT ![Len(stack)].phase = "payment"]
             ELSE Rest

\* Mutant of FailureTolerated: GS013 dropped.
AnyFailureTolerated(c) == TRUE

\* GS013: without a gas limit and a price the call must succeed.
FailureTolerated(c) == c.safeTxGas # 0 \/ c.gasPrice # 0

CallSucceeds ==
    /\ stack # <<>> /\ Top.phase = "inner"
    /\ ledger' = [ledger EXCEPT ![Top.check].succeeded = @ + 1]
    /\ Proceed
    /\ UNCHANGED <<register, owners, threshold, approved, endorsed, tampered>>

\* The failed call leaves the storage as it was when execute began, the
\* nonce registered.
CallFails ==
    /\ stack # <<>> /\ Top.phase = "inner"
    /\ IF FailureTolerated(Top.check)
       THEN LET s == Top.before
            IN  /\ Restore([s EXCEPT !.register = @ \cup {Top.check.checkNonce},
                                     !.ledger[Top.check].failed = @ + 1])
                /\ Proceed
       ELSE RevertCall

PaymentSucceeds ==
    /\ stack # <<>> /\ Top.phase = "payment"
    /\ ledger' = [ledger EXCEPT ![Top.check].paid = @ + 1]
    /\ stack' = Rest
    /\ UNCHANGED <<register, owners, threshold, approved, endorsed, tampered>>

\* GS011, GS012
PaymentFails == stack # <<>> /\ Top.phase = "payment" /\ RevertCall

\* The gas left for the executor itself may not suffice.
OutOfGas == stack # <<>> /\ RevertCall

-----------------------------------------------------------------------------
(* What others do while control is outside. *)

\* The wallet executes a transaction that changes its owners or threshold,
\* by one owner operation or several in a batch.
ChangeWallet ==
    /\ ControlOutside
    /\ \E S \in SUBSET Account, q \in 1..Cardinality(Account) : Registry!Enact(S, q)
    /\ UNCHANGED <<register, approved, endorsed, ledger, tampered, stack>>

\* GnosisSafe.approveHash, called by the owner itself.
approveHash(a, c) ==
    /\ ControlOutside
    /\ stack # <<>> => a \in Contract
    /\ a \in owners /\ <<a, c>> \in Approvable
    /\ approved' = approved \cup {<<a, c>>}
    /\ UNCHANGED <<register, owners, threshold, endorsed, ledger, tampered, stack>>

\* Contract owners change (an owner Safe its owners, its handler or the
\* messages it has signed) and with them what they answer, between two checks
\* or in the call of one.
endorse ==
    /\ ControlOutside
    /\ endorsed' \in SUBSET Endorsable
    /\ UNCHANGED <<register, owners, threshold, approved, ledger, tampered, stack>>

\* A delegatecalled contract runs on the executor's storage.
DelegateWrites ==
    /\ stack # <<>> /\ Top.phase = "inner" /\ Top.check.operation = "delegatecall"
    /\ register' \in SUBSET Nonce
    /\ tampered' = TRUE
    /\ UNCHANGED <<owners, threshold, approved, endorsed, ledger, stack>>

Next ==
    \/ \E sender \in Account, c \in Check : executeCheck(sender, c)
    \/ CallSucceeds
    \/ CallFails
    \/ PaymentSucceeds
    \/ PaymentFails
    \/ OutOfGas
    \/ ChangeWallet
    \/ \E a \in Account, c \in Check : approveHash(a, c)
    \/ endorse
    \/ DelegateWrites

Spec == Init /\ [][Next]_vars

-----------------------------------------------------------------------------
(* Properties *)

Ledger == [Check -> [succeeded : Nat, failed : Nat, paid : Nat]]

StorageType ==
    [register : SUBSET Nonce, owners : SUBSET Account, threshold : Nat,
     approved : SUBSET (Account \X Check), endorsed : SUBSET (Contract \X Check),
     ledger : Ledger, tampered : BOOLEAN]

TypeOK ==
    /\ Storage \in StorageType
    /\ stack \in Seq([check : Check, phase : {"inner", "payment"}, before : StorageType])

\* No nonce is good for two executions: of one check or of two checks that
\* share it, in any nesting of calls and after any pattern of reverts and
\* retries, as long as no delegatecalled code rewrites the register.
NonceUsedOnce ==
    ~tampered =>
        \A c, d \in Check :
            /\ Uses(c) <= 1
            /\ c.checkNonce = d.checkNonce /\ Uses(c) > 0 /\ Uses(d) > 0 => c = d

\* Between transactions the register is exactly the nonces of the checks
\* that were executed: a call that reverted, at whatever depth, has not used
\* up its check, and an executed check stays used.
RegisterExact ==
    stack = <<>> /\ ~tampered =>
        register = {c.checkNonce : c \in {d \in Check : Uses(d) > 0}}

\* Between transactions every execution of a check with a gas price has been
\* paid exactly once, whether its call succeeded or not, and no other has;
\* and no check that must succeed was used up by a failure.
UsesSettled ==
    stack = <<>> =>
        \A c \in Check :
            /\ ledger[c].paid = IF c.gasPrice > 0 THEN Uses(c) ELSE 0
            /\ c.safeTxGas = 0 /\ c.gasPrice = 0 => ledger[c].failed = 0

\* An owner no longer confirms c: a contract owner answers otherwise, or the
\* call in which the owner approved c reverts.
Withdrawn(c) == \E o \in owners : <<o, c>> \in Confirmed /\ <<o, c>> \notin Confirmed'

\* A valid check becomes invalid only when its own nonce is used, the wallet
\* changes its owners or threshold, or one of its owners takes back its own
\* confirmation of this check: executing checks with other nonces does not
\* by itself stand in its way (README: "order irrelevant").
OrderIrrelevant ==
    [][\A c \in Check :
          checkValidity(c) /\ ~checkValidity(c)' =>
              \/ <<owners, threshold>>' # <<owners, threshold>>
              \/ Withdrawn(c)
              \/ tampered \/ tampered'
              \/ stack' # <<>> /\ stack'[Len(stack')].check.checkNonce = c.checkNonce]_vars

\* The storage at the last boundary between transactions.
Settled == IF stack = <<>> THEN Storage ELSE stack[1].before

StubOf(s) ==
    [n \in Nonce |->
        LET users == {c \in Check : c.checkNonce = n /\ s.ledger[c].succeeded + s.ledger[c].failed > 0}
        IN  IF users = {} THEN Blank ELSE CHOOSE c \in users : TRUE]

Book == INSTANCE CheckBook WITH stub <- StubOf(Settled), intact <- ~Settled.tampered

\* Seen between transactions, the executor is a book of single-use checks:
\* a transaction, with all the calls nested in it, cashes some checks with
\* different fresh nonces or none at all.
BookSpec == Book!Spec
=============================================================================
