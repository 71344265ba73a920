--------------------------- MODULE OwnerRegistry ---------------------------
(***************************************************************************)
(* What a multi-signature wallet promises about its owners, with no word   *)
(* about how they are stored: a finite set of accounts and a quorum, and   *)
(* no operation may leave the wallet with a quorum its owners cannot       *)
(* reach.  OwnerManager (contracts/base/OwnerManager.sol) implements it    *)
(* with a linked list in contract storage; the modules above it use        *)
(* this view.                                                              *)
(***************************************************************************)
EXTENDS Integers, FiniteSets

CONSTANT Owner          \* the accounts that may own the wallet

VARIABLES
    ownerSet,           \* the current owners
    quorum              \* the confirmations a transaction needs; 0: no wallet

vars == <<ownerSet, quorum>>

\* A wallet state that can still act: some owners, a quorum within reach.
Operable(S, q) == S \subseteq Owner /\ q \in 1..Cardinality(S)

Enact(S, q) == Operable(S, q) /\ ownerSet' = S /\ quorum' = q

Founded == quorum > 0

Init == ownerSet = {} /\ quorum = 0

\* The founders are fixed once.
Found == ~Founded /\ \E S \in SUBSET Owner, q \in 1..Cardinality(Owner) : Enact(S, q)

Admit(o, q) == Founded /\ o \notin ownerSet /\ Enact(ownerSet \cup {o}, q)

Expel(o, q) == Founded /\ o \in ownerSet /\ Enact(ownerSet \ {o}, q)

Replace(old, new) ==
    /\ Founded
    /\ old \in ownerSet /\ new \notin ownerSet
    /\ Enact((ownerSet \ {old}) \cup {new}, quorum)

SetQuorum(q) == Founded /\ Enact(ownerSet, q)

Next ==
    \/ Found
    \/ \E o \in Owner, q \in 1..Cardinality(Owner) : Admit(o, q) \/ Expel(o, q)
    \/ \E old, new \in Owner : Replace(old, new)
    \/ \E q \in 1..Cardinality(Owner) : SetQuorum(q)

Spec == Init /\ [][Next]_vars
============================================================================
