--------------------------- MODULE CheckSignatures ---------------------------
(***************************************************************************)
(* checkSignatures and checkNSignatures of contracts/GnosisSafe.sol: the   *)
(* loop that decides whether enough owners confirm a hash, one iteration   *)
(* per step, and approveHash, the on-chain way to confirm one.             *)
(*                                                                         *)
(* The call is a view: the wallet does not change while it runs.  Bytes    *)
(* are abstracted: a signature is a record with the branch its v selects,  *)
(* the account it names or was made by, and the digest its key signed.     *)
(***************************************************************************)
EXTENDS Integers, Sequences, FiniteSets

CONSTANTS
    Account,        \* addresses with a key or code, ordered as numbers
    Hash,           \* hashes of transactions, checks and messages
    Signed,         \* <<a, d>>: the key of a has signed digest d off chain
    Data,           \* the bytes passed beside a hash, for contract owners
    Endorsable,     \* bound: the <<a, d>> that contract a may answer for
    OwnerSets,      \* bound: the sets of owners the wallet may have
    Caller,         \* bound: the accounts that make calls
    MaxSignatures,  \* bound: signatures in one call
    MaxApprovals    \* bound: hashes approved on chain

\* What an ECDSA key signs: a hash, or the hash under eth_sign's prefix.
Digest == {"plain", "prefixed"} \X Hash

ASSUME SignatureAssumption ==
    /\ Account \subseteq Nat \ {0, 1} /\ IsFiniteSet(Account)
    /\ Signed \subseteq Account \X Digest
    /\ Endorsable \subseteq Account \X Data
    /\ OwnerSets \subseteq SUBSET Account
    /\ Caller \subseteq Account
    /\ MaxSignatures \in Nat /\ MaxApprovals \in Nat

\* ecrecover of a digest that the key did not sign yields an address that
\* nobody controls; address(0), its error value, stands for all of them.
Nobody == 0

VARIABLES
    owners,         \* the accounts isOwner accepts (see OwnerManager)
    threshold,
    approvedHashes, \* <<a, h>>: the non-zero entries of the mapping
    endorsed,       \* <<a, d>>: contract a, asked now about d and the bytes that
                    \* belong to it, answers EIP1271_MAGIC_VALUE
    call,           \* arguments of the call in progress, and its sender
    pc,             \* "idle", "loop", "accepted" or "reverted"
    i,              \* loop counter
    lastOwner,
    counted         \* history: the accounts the loop has counted

wallet == <<owners, threshold, approvedHashes, endorsed>>
vars == <<owners, threshold, approvedHashes, endorsed, call, pc, i, lastOwner, counted>>

-----------------------------------------------------------------------------
(* Signatures and what they say. *)

ECDSASignature ==
    {[v |-> v, by |-> s[1], over |-> s[2]] : v \in {"eoa", "ethSign"}, s \in Signed}

\* v = 1: r names an account said to have approved the hash.
ApprovedHashSignature == [v : {"approved"}, by : Account]

\* v = 0: r names a contract; placed: the offset s and the length found
\* there stay within the bytes behind the static part (GS021 to GS023) and
\* the bytes found are those the contract wants to see.
ContractSignature == [v : {"contract"}, by : Account, placed : BOOLEAN]

Signature == ECDSASignature \cup ApprovedHashSignature \cup ContractSignature

ecrecover(sig, digest) == IF sig.over = digest THEN sig.by ELSE Nobody

currentOwner(sig, h) ==
    CASE sig.v = "ethSign" -> ecrecover(sig, <<"prefixed", h>>)
      [] sig.v = "eoa" -> ecrecover(sig, <<"plain", h>>)
      [] OTHER -> sig.by

\* Mutant of BranchAccepts: only the caller's own approval counts.
BranchAcceptsCallerOnly(sig, h, d, sender) ==
    /\ sig.v = "contract" => sig.placed /\ <<sig.by, d>> \in endorsed
    /\ sig.v = "approved" => sender = sig.by

\* Mutant of BranchAccepts: a contract owner is not asked (GS024 dropped).
BranchAcceptsUnasked(sig, h, d, sender) ==
    /\ sig.v = "contract" => sig.placed
    /\ sig.v = "approved" => sender = sig.by \/ <<sig.by, h>> \in approvedHashes

\* The requires inside the branches of the loop, GS021 to GS025.  The hash is
\* what keys and approvals stand for; a contract is asked about the data.
BranchAccepts(sig, h, d, sender) ==
    /\ sig.v = "contract" => sig.placed /\ <<sig.by, d>> \in endorsed
    /\ sig.v = "approved" => sender = sig.by \/ <<sig.by, h>> \in approvedHashes

\* Mutant of InOrder: an owner may follow itself.
InWeakOrder(owner, last) == owner >= last

\* GS026: ascending order rules out an owner counted twice.
InOrder(owner, last) == owner > last

SignatureCounts(sig, h, d, sender, last) ==
    /\ BranchAccepts(sig, h, d, sender)
    /\ InOrder(currentOwner(sig, h), last)
    /\ currentOwner(sig, h) \in owners

-----------------------------------------------------------------------------
(* The calls. *)

Idle == [dataHash |-> <<>>, data |-> <<>>, signatures |-> <<>>, sender |-> Nobody]

Init ==
    /\ owners \in OwnerSets
    /\ threshold \in IF owners = {} THEN {0} ELSE 1..Cardinality(owners)
    /\ approvedHashes = {} /\ endorsed \in SUBSET Endorsable
    /\ call = Idle /\ pc = "idle" /\ i = 0 /\ lastOwner = Nobody /\ counted = {}

\* GS030
approveHash(sender, h) ==
    /\ pc = "idle"
    /\ sender \in owners
    /\ Cardinality(approvedHashes) < MaxApprovals
    /\ approvedHashes' = approvedHashes \cup {<<sender, h>>}
    /\ UNCHANGED <<owners, threshold, endorsed, call, pc, i, lastOwner, counted>>

\* A contract owner changes its mind: its own owners, handler or state.
endorse ==
    /\ pc = "idle"
    /\ endorsed' \in SUBSET Endorsable
    /\ UNCHANGED <<owners, threshold, approvedHashes, call, pc, i, lastOwner, counted>>

\* Mutant of CanStart: one signature more than the threshold is demanded.
CanStartBeyond(sigs) == threshold > 0 /\ Len(sigs) > threshold

\* GS001 and GS020, then the loop over `threshold` signatures.
CanStart(sigs) == threshold > 0 /\ Len(sigs) >= threshold

\* A public function: whoever calls it chooses the data beside the hash.  The
\* wallet and the executor pass what they hashed; the fallback handler passes
\* a message with the hash that belongs to the Safe and the message.
checkSignatures(h, d, sigs, sender) ==
    /\ call' = [dataHash |-> h, data |-> d, signatures |-> sigs, sender |-> sender]
    /\ pc' = IF CanStart(sigs) THEN "loop" ELSE "reverted"
    /\ i' = 0 /\ lastOwner' = Nobody /\ counted' = {}
    /\ UNCHANGED wallet

CurrentSignature == call.signatures[i + 1]

Iterate ==
    /\ pc = "loop" /\ i < threshold
    /\ IF SignatureCounts(CurrentSignature, call.dataHash, call.data, call.sender, lastOwner)
       THEN LET owner == currentOwner(CurrentSignature, call.dataHash)
            IN  /\ lastOwner' = owner
                /\ counted' = counted \cup {owner}
                /\ i' = i + 1
                /\ pc' = pc
       ELSE pc' = "reverted" /\ UNCHANGED <<i, lastOwner, counted>>
    /\ UNCHANGED <<owners, threshold, approvedHashes, endorsed, call>>

EndOfLoop ==
    /\ pc = "loop" /\ i >= threshold
    /\ pc' = "accepted"
    /\ UNCHANGED <<owners, threshold, approvedHashes, endorsed, call, i, lastOwner, counted>>

Return ==
    /\ pc \in {"accepted", "reverted"}
    /\ call' = Idle /\ pc' = "idle" /\ i' = 0 /\ lastOwner' = Nobody /\ counted' = {}
    /\ UNCHANGED wallet

Signatures == UNION {[1..n -> Signature] : n \in 0..MaxSignatures}

Next ==
    \/ \E sender \in Account, h \in Hash : approveHash(sender, h)
    \/ endorse
    \/ /\ pc = "idle"
       /\ \E h \in Hash, d \in Data, sigs \in Signatures, sender \in Caller :
             checkSignatures(h, d, sigs, sender)
    \/ Iterate
    \/ EndOfLoop
    \/ Return

Spec == Init /\ [][Next]_vars

-----------------------------------------------------------------------------
(* Properties *)

TypeOK ==
    /\ owners \in SUBSET Account
    /\ threshold \in Nat
    /\ approvedHashes \in SUBSET (Account \X Hash)
    /\ endorsed \in SUBSET Endorsable
    /\ pc \in {"idle", "loop", "accepted", "reverted"}
    /\ pc # "idle" => call \in [dataHash : Hash, data : Data, signatures : Seq(Signature), sender : Caller]
    /\ i \in Nat
    /\ lastOwner \in Nat
    /\ counted \in SUBSET Account

\* The account stands behind the call: its key signed the hash, it approved
\* the hash on chain, its code endorses the data, or it makes the call itself.
Confirms(a, h, d, sender) ==
    \/ \E form \in {"plain", "prefixed"} : <<a, <<form, h>>>> \in Signed
    \/ <<a, d>> \in endorsed
    \/ <<a, h>> \in approvedHashes
    \/ a = sender

Confirmers(h, d, sender) == {a \in owners : Confirms(a, h, d, sender)}

\* A call passes only with a quorum: at least threshold different current
\* owners each confirm exactly this hash, or, contracts, exactly the data
\* beside it, whatever mix of signature kinds, repetitions and foreign
\* signatures the caller packs together.  That the two belong together is
\* for the caller to see to: the code does not compare them.
QuorumSound ==
    pc = "accepted" =>
        /\ threshold > 0
        /\ Cardinality(Confirmers(call.dataHash, call.data, call.sender)) >= threshold

\* The reference: the first threshold signatures are in strictly ascending
\* order of their owners, each compared with every other.
Accepts(h, d, sigs, sender) ==
    /\ threshold \in 1..Len(sigs)
    /\ \A k \in 1..threshold :
          /\ BranchAccepts(sigs[k], h, d, sender)
          /\ currentOwner(sigs[k], h) \in owners
          /\ \A j \in 1..(k - 1) : currentOwner(sigs[j], h) < currentOwner(sigs[k], h)

\* The loop, which compares neighbours only, decides as the reference does.
LoopDecides ==
    /\ pc = "accepted" => Accepts(call.dataHash, call.data, call.signatures, call.sender)
    /\ pc = "reverted" => ~Accepts(call.dataHash, call.data, call.signatures, call.sender)

\* Nothing but the order of the owners can keep a quorum out: if enough
\* owners confirm a hash, some packing of signatures is accepted.
QuorumPresentable ==
    pc = "idle" =>
        \A h \in Hash, d \in Data, sender \in Account :
            threshold > 0 /\ Cardinality(Confirmers(h, d, sender)) >= threshold =>
                \E sigs \in [1..threshold -> Signature] : Accepts(h, d, sigs, sender)
=============================================================================
