---------------------------- MODULE OwnerManager ----------------------------
(***************************************************************************)
(* contracts/base/OwnerManager.sol: the owners of a Safe as a circular     *)
(* linked list in contract storage, the number of owners and the           *)
(* signature threshold.                                                    *)
(*                                                                         *)
(* Every action is one external call that succeeds; a call whose require   *)
(* fails reverts and leaves no trace.  The arguments of a call are         *)
(* arbitrary addresses and thresholds, the zero address, the sentinel and  *)
(* the Safe's own address among them.                                      *)
(***************************************************************************)
EXTENDS Sequences, FiniteSets, LinkedList

CONSTANTS
    Owner,          \* ordinary account addresses
    Self,           \* the Safe's own address, address(this)
    MaxOwners       \* bound: founders listed in one call of setup

ASSUME AddressAssumption ==
    /\ IsFiniteSet(Owner)
    /\ Zero # SENTINEL /\ Zero # Self /\ SENTINEL # Self
    /\ {Zero, SENTINEL, Self} \cap Owner = {}
    /\ MaxOwners \in Nat

Address == Owner \cup {Zero, SENTINEL, Self}

\* Bound: threshold arguments, one past what any set of owners can reach.
ThresholdArg == 0..(Cardinality(Owner) + 1)

VARIABLES
    owners,         \* mapping(address => address): each entry names the next
    ownerCount,
    threshold

vars == <<owners, ownerCount, threshold>>

isOwner(a) == a # SENTINEL /\ owners[a] # Zero

OwnerSet == {a \in Address : isOwner(a)}

Init ==
    /\ owners = [a \in Address |-> Zero]
    /\ ownerCount = 0
    /\ threshold = 0

-----------------------------------------------------------------------------
(* The require statements of the calls. *)

\* The wallet has been set up: GS200 guards setup against a second call.
Initialised == threshold > 0

\* The mutators are `authorized`: they run only when the Safe calls itself,
\* and it makes no call of its own before checkSignatures finds a
\* threshold (GS001) or a module, enabled during setup, acts for it.
SelfCall == Initialised

\* GS203: not the zero address, the sentinel or the Safe itself.
Admissible(a) == a \notin {Zero, SENTINEL, Self}

\* GS201 and GS202 of changeThreshold, for a list of n owners.
ThresholdFits(t, n) == t <= n /\ t >= 1

\* The loop of setupOwners: GS203 compares an owner with the one before it
\* only; GS204 finds an earlier duplicate because that owner's entry has
\* been written by then.
CanSetupOwners(list, t) ==
    /\ ~Initialised
    /\ ThresholdFits(t, Len(list))
    /\ \A i \in DOMAIN list :
          /\ Admissible(list[i])
          /\ i > 1 => list[i - 1] # list[i]
          /\ owners[list[i]] = Zero
          /\ \A j \in 1..(i - 2) : list[j] # list[i]

\* Mutant of ThresholdAccepted: off by one at the number of owners.
ThresholdBeyond(t, n) == t = threshold \/ ThresholdFits(t, n + 1)

\* A mutator calls changeThreshold only for a value that differs.
ThresholdAccepted(t, n) == t = threshold \/ ThresholdFits(t, n)

\* Mutant of CanAddOwner: GS204 dropped.
CanAddTwice(o, t) == Admissible(o) /\ ThresholdAccepted(t, ownerCount + 1)

CanAddOwner(o, t) ==
    /\ Admissible(o)
    /\ owners[o] = Zero                                     \* GS204
    /\ ThresholdAccepted(t, ownerCount + 1)

\* Mutant of CanRemoveOwner: GS205 dropped, prev is trusted.
CanRemoveAnywhere(prev, o, t) ==
    /\ ownerCount - 1 >= t /\ o \notin {Zero, SENTINEL}
    /\ ThresholdAccepted(t, ownerCount - 1)

\* Mutant of CanRemoveOwner: GS201 demands one owner more than it needs.
CanRemoveSpare(prev, o, t) ==
    /\ ownerCount - 1 > t /\ o \notin {Zero, SENTINEL} /\ owners[prev] = o
    /\ ThresholdAccepted(t, ownerCount - 1)

CanRemoveOwner(prev, o, t) ==
    /\ ownerCount - 1 >= t                                  \* GS201
    /\ o \notin {Zero, SENTINEL}                            \* GS203
    /\ owners[prev] = o                                     \* GS205
    /\ ThresholdAccepted(t, ownerCount - 1)

CanSwapOwner(prev, old, new) ==
    /\ Admissible(new)
    /\ owners[new] = Zero                                   \* GS204
    /\ old \notin {Zero, SENTINEL}                          \* GS203
    /\ owners[prev] = old                                   \* GS205

-----------------------------------------------------------------------------
(* The calls. *)

\* The storage after the loop of setupOwners: each listed owner points to
\* the next, the last one to the sentinel.
Linked(list) ==
    [a \in Address |->
        IF a = SENTINEL THEN list[1]
        ELSE IF \E i \in DOMAIN list : list[i] = a
        THEN LET i == CHOOSE j \in DOMAIN list : list[j] = a
             IN  IF i = Len(list) THEN SENTINEL ELSE list[i + 1]
        ELSE owners[a]]

setupOwners(list, t) ==
    /\ CanSetupOwners(list, t)
    /\ owners' = Linked(list)
    /\ ownerCount' = Len(list)
    /\ threshold' = t

addOwnerWithThreshold(o, t) ==
    /\ SelfCall
    /\ CanAddOwner(o, t)
    /\ owners' = [owners EXCEPT ![o] = owners[SENTINEL], ![SENTINEL] = o]
    /\ ownerCount' = ownerCount + 1
    /\ threshold' = t

removeOwner(prev, o, t) ==
    /\ SelfCall
    /\ CanRemoveOwner(prev, o, t)
    /\ owners' = [owners EXCEPT ![prev] = owners[o], ![o] = Zero]
    /\ ownerCount' = ownerCount - 1
    /\ threshold' = t

\* Mutant of swapOwner: the entry of the old owner is not reset.
swapOwnerKeepsEntry(prev, old, new) ==
    /\ SelfCall /\ CanSwapOwner(prev, old, new)
    /\ owners' = [owners EXCEPT ![new] = owners[old], ![prev] = new]
    /\ UNCHANGED <<ownerCount, threshold>>

swapOwner(prev, old, new) ==
    /\ SelfCall
    /\ CanSwapOwner(prev, old, new)
    /\ owners' = [owners EXCEPT ![new] = owners[old], ![prev] = new, ![old] = Zero]
    /\ UNCHANGED <<ownerCount, threshold>>

changeThreshold(t) ==
    /\ SelfCall
    /\ ThresholdFits(t, ownerCount)
    /\ threshold' = t
    /\ UNCHANGED <<owners, ownerCount>>

OwnerList == UNION {[1..n -> Address] : n \in 0..MaxOwners}

Next ==
    \/ \E list \in OwnerList, t \in ThresholdArg : setupOwners(list, t)
    \/ \E o \in Address, t \in ThresholdArg : addOwnerWithThreshold(o, t)
    \/ \E prev, o \in Address, t \in ThresholdArg : removeOwner(prev, o, t)
    \/ \E prev, old, new \in Address : swapOwner(prev, old, new)
    \/ \E t \in ThresholdArg : changeThreshold(t)

Spec == Init /\ [][Next]_vars

-----------------------------------------------------------------------------
(* The view function getOwners. *)

\* The address reached by following the list k + 1 times from the sentinel.
Walk[k \in Nat] == IF k = 0 THEN owners[SENTINEL] ELSE owners[Walk[k - 1]]

\* Where the loop of getOwners ends within the array of ownerCount entries;
\* beyond the array, the write array[index] reverts.
Stops == {k \in 0..ownerCount : Walk[k] = SENTINEL}

getOwnersReturns == Stops # {}

\* Entries past the end of the walk keep the value of a new array.
getOwners ==
    [i \in 1..ownerCount |->
        IF \E k \in Stops : k < i THEN Zero ELSE Walk[i - 1]]

-----------------------------------------------------------------------------
(* Properties *)

\* The storage has the types of its declarations (OwnerManager.sol:15-17),
\* and addresses that no call can write stay zero: address(0) and the Safe.
TypeOK ==
    /\ owners \in [Address -> Address]
    /\ owners[Zero] = Zero /\ owners[Self] = Zero
    /\ ownerCount \in Nat
    /\ threshold \in Nat

\* The linked list of a set-up Safe is a single ring of ownerCount owners,
\* whatever sequence of additions, removals (with any claimed predecessor)
\* and swaps it went through; no owner is lost, repeated or cut off.
OwnerRing == Initialised => Ring(owners, ownerCount, Owner)

\* A set-up Safe is never locked out: it needs at least one signature and
\* no more than it has owners, counted by membership and not by ownerCount.
ThresholdReachable == Initialised => threshold \in 1..Cardinality(OwnerSet)

\* getOwners (OwnerManager.sol:136-148) ends without running past its array
\* and returns exactly the addresses isOwner accepts, each once.
GetOwnersExact ==
    Initialised =>
        /\ getOwnersReturns
        /\ {getOwners[i] : i \in 1..ownerCount} = OwnerSet
        /\ Cardinality(OwnerSet) = ownerCount

\* No owner can become irremovable: as long as another owner remains, there
\* is exactly one predecessor with which removeOwner accepts the owner.
OwnerRemovable ==
    ownerCount > 1 =>
        \A o \in OwnerSet :
            Cardinality({prev \in Address : CanRemoveOwner(prev, o, 1)}) = 1

Registry == INSTANCE OwnerRegistry WITH ownerSet <- OwnerSet, quorum <- threshold

\* The linked list implements a set of owners with a reachable quorum: every
\* call changes the membership exactly as its name says.
RegistrySpec == Registry!Spec
=============================================================================
