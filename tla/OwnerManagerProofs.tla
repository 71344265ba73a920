------------------------- MODULE OwnerManagerProofs -------------------------
(***************************************************************************)
(* What TLAPS proves of OwnerManager for every finite set of owner         *)
(* addresses: the linked list stays one ring, the threshold stays within   *)
(* reach, and the list implements the set of OwnerRegistry.                *)
(***************************************************************************)
EXTENDS OwnerManager, LinkedListProofs

-----------------------------------------------------------------------------
LEMMA OwnerSpace == Space(Owner, Address)
  BY AddressAssumption DEF Space, Address

\* The loop of setupOwners writes a ring of the listed owners when the
\* storage is fresh; GS203 and GS204 together exclude every duplicate.
LEMMA RingSetup ==
    ASSUME owners = [a \in Address |-> Zero],
           NEW n \in Nat, NEW list \in [1..n -> Address], NEW t \in Nat,
           CanSetupOwners(list, t)
    PROVE  /\ Linked(list) \in [Address -> Address]
           /\ Linked(list)[Zero] = Zero /\ Linked(list)[Self] = Zero
           /\ Ring(Linked(list), n, Owner)
<1>1. Len(list) = n /\ DOMAIN list = 1..n
  OBVIOUS
<1>2. n >= 1
  BY <1>1 DEF CanSetupOwners, ThresholdFits
<1>3. \A i \in 1..n : list[i] \in Owner
  BY <1>1 DEF CanSetupOwners, Admissible, Address
<1>4. \A i \in 1..n : Linked(list)[list[i]] = IF i = n THEN SENTINEL ELSE list[i + 1]
  <2>1. \A i, j \in 1..n : list[i] = list[j] => i = j
    <3> SUFFICES ASSUME NEW i \in 1..n, NEW j \in 1..n, j < i
                 PROVE  list[i] # list[j]
      OBVIOUS
    <3>1. CASE j = i - 1
      BY <3>1, <1>1 DEF CanSetupOwners
    <3>2. CASE j < i - 1
      BY <3>2, <1>1 DEF CanSetupOwners
    <3> QED
      BY <3>1, <3>2
  <2> SUFFICES ASSUME NEW i \in 1..n
               PROVE  Linked(list)[list[i]] = IF i = n THEN SENTINEL ELSE list[i + 1]
    OBVIOUS
  <2>2. list[i] \in Address /\ list[i] # SENTINEL
    BY <1>3, AddressAssumption DEF Address
  <2> DEFINE a == list[i]
             c == CHOOSE j \in DOMAIN list : list[j] = a
  <2>3. c = i
    BY <2>1, <1>1
  <2>4. \E j \in DOMAIN list : list[j] = a
    BY <1>1
  <2>5. Linked(list)[a] = IF c = Len(list) THEN SENTINEL ELSE list[c + 1]
    BY <2>2, <2>4 DEF Linked
  <2> QED
    BY <2>3, <2>5, <1>1
<1>5. \A a \in Address :
        a # SENTINEL /\ (\A i \in 1..n : list[i] # a) => Linked(list)[a] = Zero
  BY <1>1 DEF Linked
<1>6. Linked(list)[SENTINEL] = list[1]
  BY DEF Linked, Address
<1>7. Linked(list) \in [Address -> Address]
  <2>1. \A a \in Address : Linked(list)[a] \in Address
    BY <1>2, <1>3, <1>4, <1>5, <1>6 DEF Address
  <2> QED
    BY <2>1 DEF Linked
<1> DEFINE p == [i \in 0..n |-> IF i = 0 THEN SENTINEL ELSE list[i]]
<1>8. p \in [0..n -> Owner \cup {SENTINEL}]
  BY <1>3
<1>9. RingOrder(Linked(list), n, p, Owner)
  <2>1. p[0] = SENTINEL /\ \A i \in 1..n : p[i] \in Owner
    BY <1>3
  <2>2. \A i, j \in 0..n : p[i] = p[j] => i = j
    <3> SUFFICES ASSUME NEW i \in 0..n, NEW j \in 0..n, j < i
                 PROVE  p[i] # p[j]
      OBVIOUS
    <3>1. CASE j = 0
      BY <3>1, <1>3, AddressAssumption
    <3>2. CASE j = i - 1 /\ j > 0
      BY <3>2, <1>1 DEF CanSetupOwners
    <3>3. CASE j < i - 1 /\ j > 0
      BY <3>3, <1>1 DEF CanSetupOwners
    <3> QED
      BY <3>1, <3>2, <3>3
  <2>3. \A i \in 0..n : Linked(list)[p[i]] = IF i = n THEN SENTINEL ELSE p[i + 1]
    BY <1>2, <1>4, <1>6
  <2>4. \A a \in Address : Linked(list)[a] # Zero => \E i \in 0..n : p[i] = a
    <3> SUFFICES ASSUME NEW a \in Address, Linked(list)[a] # Zero
                 PROVE  \E i \in 0..n : p[i] = a
      OBVIOUS
    <3>1. CASE a = SENTINEL
      BY <3>1
    <3>2. CASE a # SENTINEL
      <4>1. PICK i \in 1..n : list[i] = a
        BY <3>2, <1>5
      <4>2. i \in 0..n /\ p[i] = a
        BY <4>1
      <4> QED
        BY <4>2
    <3> QED
      BY <3>1, <3>2
  <2> QED
    BY <1>7, <2>1, <2>2, <2>3, <2>4 DEF RingOrder
<1>10. Linked(list)[Zero] = Zero /\ Linked(list)[Self] = Zero
  BY <1>3, <1>5, AddressAssumption DEF Address
<1> QED
  BY <1>7, <1>8, <1>9, <1>10 DEF Ring

-----------------------------------------------------------------------------
(* The state machine. *)

\* Inductive strengthening: before setup the storage is untouched, so that
\* setupOwners finds every entry zero; afterwards ownerCount is the size of
\* the ring, which is what the checks of the threshold compare with.
IInv ==
    /\ TypeOK
    /\ ~Initialised => owners = [a \in Address |-> Zero] /\ ownerCount = 0
    /\ OwnerRing
    /\ Initialised => threshold <= ownerCount

LEMMA InitIInv == Init => IInv
  BY DEF Init, IInv, TypeOK, Initialised, OwnerRing, Address

LEMMA SetupStep ==
    ASSUME IInv, NEW list \in OwnerList, NEW t \in ThresholdArg,
           setupOwners(list, t)
    PROVE  IInv'
<1>1. PICK n \in Nat : list \in [1..n -> Address]
  BY AddressAssumption DEF OwnerList
<1>2. t \in Nat
  BY FS_CardinalityType, AddressAssumption DEF ThresholdArg
<1>3. CanSetupOwners(list, t) /\ owners' = Linked(list) /\ threshold' = t
  BY DEF setupOwners
<1>4. Len(list) = n /\ ownerCount' = n
  BY <1>1 DEF setupOwners
<1>5. owners = [a \in Address |-> Zero]
  BY <1>3 DEF IInv, CanSetupOwners
<1>6. /\ Linked(list) \in [Address -> Address]
      /\ Linked(list)[Zero] = Zero /\ Linked(list)[Self] = Zero
      /\ Ring(Linked(list), n, Owner)
  BY <1>1, <1>2, <1>3, <1>5, RingSetup
<1>7. 1 <= t /\ t <= n
  BY <1>3, <1>4 DEF CanSetupOwners, ThresholdFits
<1> QED
  BY <1>1, <1>2, <1>3, <1>4, <1>6, <1>7 DEF IInv, TypeOK, Initialised, OwnerRing

LEMMA AddStep ==
    ASSUME IInv, NEW o \in Address, NEW t \in ThresholdArg,
           addOwnerWithThreshold(o, t)
    PROVE  IInv'
<1>1. t \in Nat
  BY FS_CardinalityType, AddressAssumption DEF ThresholdArg
<1>2. o \in Owner /\ owners[o] = Zero
  BY DEF addOwnerWithThreshold, CanAddOwner, Admissible, Address
<1>3. Ring(owners', ownerCount', Owner)
  BY <1>2, RingInsert, OwnerSpace DEF addOwnerWithThreshold, SelfCall, IInv, TypeOK, OwnerRing
<1>4. t >= 1 /\ t <= ownerCount + 1
  BY <1>1 DEF addOwnerWithThreshold, CanAddOwner, ThresholdAccepted,
              ThresholdFits, SelfCall, Initialised, IInv, TypeOK
<1>5. TypeOK'
  BY <1>1, <1>2, AddressAssumption DEF addOwnerWithThreshold, IInv, TypeOK, Address
<1> QED
  BY <1>1, <1>3, <1>4, <1>5 DEF addOwnerWithThreshold, IInv, TypeOK, Initialised, OwnerRing

LEMMA RemoveStep ==
    ASSUME IInv, NEW prev \in Address, NEW o \in Address, NEW t \in ThresholdArg,
           removeOwner(prev, o, t)
    PROVE  IInv'
<1>1. t \in Nat
  BY FS_CardinalityType, AddressAssumption DEF ThresholdArg
<1>2. PICK p \in [0..ownerCount -> Owner \cup {SENTINEL}] :
        RingOrder(owners, ownerCount, p, Owner)
  BY DEF removeOwner, SelfCall, IInv, OwnerRing, Ring
<1>3. owners[prev] = o /\ o \notin {Zero, SENTINEL}
  BY DEF removeOwner, CanRemoveOwner
<1>4. PICK k \in 1..ownerCount : p[k] = o /\ p[k - 1] = prev
  BY <1>2, <1>3, RingPredecessor, OwnerSpace DEF IInv, TypeOK
<1>5. Ring(owners', ownerCount - 1, Owner)
  BY <1>2, <1>4, RingDelete, OwnerSpace DEF removeOwner, IInv, TypeOK
<1>6. t >= 1 /\ t <= ownerCount - 1
  BY <1>1 DEF removeOwner, CanRemoveOwner, ThresholdAccepted,
              ThresholdFits, SelfCall, Initialised, IInv, TypeOK
<1>7. TypeOK'
  BY <1>1, <1>3, <1>4, <1>6, AddressAssumption DEF removeOwner, IInv, TypeOK, Address
<1> QED
  BY <1>1, <1>5, <1>6, <1>7 DEF removeOwner, IInv, TypeOK, Initialised, OwnerRing

LEMMA SwapStep ==
    ASSUME IInv, NEW prev \in Address, NEW old \in Address, NEW new \in Address,
           swapOwner(prev, old, new)
    PROVE  IInv'
<1>1. new \in Owner /\ owners[new] = Zero
  BY DEF swapOwner, CanSwapOwner, Admissible, Address
<1>2. PICK p \in [0..ownerCount -> Owner \cup {SENTINEL}] :
        RingOrder(owners, ownerCount, p, Owner)
  BY DEF swapOwner, SelfCall, IInv, OwnerRing, Ring
<1>3. owners[prev] = old /\ old \notin {Zero, SENTINEL}
  BY DEF swapOwner, CanSwapOwner
<1>4. PICK k \in 1..ownerCount : p[k] = old /\ p[k - 1] = prev
  BY <1>2, <1>3, RingPredecessor, OwnerSpace DEF IInv, TypeOK
<1>5. Ring(owners', ownerCount, Owner)
  BY <1>1, <1>2, <1>4, RingReplace, OwnerSpace DEF swapOwner, IInv, TypeOK
<1>6. TypeOK'
  BY <1>1, <1>3, AddressAssumption DEF swapOwner, IInv, TypeOK, Address
<1> QED
  BY <1>5, <1>6 DEF swapOwner, SelfCall, IInv, TypeOK, Initialised, OwnerRing

LEMMA NextIInv == IInv /\ [Next]_vars => IInv'
<1> SUFFICES ASSUME IInv, [Next]_vars
             PROVE  IInv'
  OBVIOUS
<1>1. ASSUME NEW list \in OwnerList, NEW t \in ThresholdArg, setupOwners(list, t)
      PROVE  IInv'
  BY <1>1, SetupStep
<1>2. ASSUME NEW o \in Address, NEW t \in ThresholdArg, addOwnerWithThreshold(o, t)
      PROVE  IInv'
  BY <1>2, AddStep
<1>3. ASSUME NEW prev \in Address, NEW o \in Address, NEW t \in ThresholdArg,
             removeOwner(prev, o, t)
      PROVE  IInv'
  BY <1>3, RemoveStep
<1>4. ASSUME NEW prev \in Address, NEW old \in Address, NEW new \in Address,
             swapOwner(prev, old, new)
      PROVE  IInv'
  BY <1>4, SwapStep
<1>5. ASSUME NEW t \in ThresholdArg, changeThreshold(t)
      PROVE  IInv'
  <2>1. t \in Nat
    BY FS_CardinalityType, AddressAssumption DEF ThresholdArg
  <2> QED
    BY <1>5, <2>1 DEF changeThreshold, ThresholdFits, SelfCall, IInv, TypeOK,
                      Initialised, OwnerRing
<1>6. CASE UNCHANGED vars
  BY <1>6 DEF vars, IInv, TypeOK, Initialised, OwnerRing
<1> QED
  BY <1>1, <1>2, <1>3, <1>4, <1>5, <1>6 DEF Next

\* Every reachable state satisfies the inductive invariant.
THEOREM Invariance == Spec => []IInv
  BY InitIInv, NextIInv, PTL DEF Spec

\* The storage keeps its types, whatever the arguments of the calls.
THEOREM TypeCorrect == Spec => []TypeOK
<1>1. IInv => TypeOK
  BY DEF IInv
<1> QED
  BY <1>1, Invariance, PTL

\* The linked list of a set-up Safe is always one ring through the sentinel
\* with ownerCount owners, for any number of owner addresses.
THEOREM RingCorrect == Spec => []OwnerRing
<1>1. IInv => OwnerRing
  BY DEF IInv
<1> QED
  BY <1>1, Invariance, PTL

LEMMA OwnerSetIsMembers == TypeOK => OwnerSet = Members(owners)
  BY DEF TypeOK, OwnerSet, Members, isOwner

\* No sequence of owner operations locks the Safe: the threshold is at
\* least one and at most the number of addresses that isOwner accepts.
THEOREM ThresholdCorrect == Spec => []ThresholdReachable
<1>1. IInv => ThresholdReachable
  <2> SUFFICES ASSUME IInv, Initialised
               PROVE  threshold \in 1..Cardinality(OwnerSet)
    BY DEF ThresholdReachable
  <2>1. Cardinality(OwnerSet) = ownerCount
    BY RingMembers, OwnerSpace, OwnerSetIsMembers DEF IInv, TypeOK, OwnerRing
  <2> QED
    BY <2>1 DEF IInv, TypeOK, Initialised
<1> QED
  BY <1>1, Invariance, PTL

\* No owner is locked in: the one prev with which removeOwner accepts an
\* owner is the entry before it in the ring, and it always exists.
THEOREM NoneIrremovable == Spec => []OwnerRemovable
<1>1. IInv => OwnerRemovable
  <2> SUFFICES ASSUME IInv, ownerCount > 1, NEW o \in OwnerSet
               PROVE  Cardinality({prev \in Address : CanRemoveOwner(prev, o, 1)}) = 1
    BY DEF OwnerRemovable
  <2>1. /\ owners \in [Address -> Address] /\ owners[Zero] = Zero /\ ownerCount \in Nat
        /\ threshold \in Nat
    BY DEF IInv, TypeOK
  <2>2. Initialised
    BY DEF IInv
  <2>3. PICK p \in [0..ownerCount -> Owner \cup {SENTINEL}] :
          RingOrder(owners, ownerCount, p, Owner)
    BY <2>2 DEF IInv, OwnerRing, Ring
  <2>4. o \in Address /\ o # SENTINEL /\ owners[o] # Zero /\ o # Zero
    BY <2>1 DEF OwnerSet, isOwner
  <2>5. PICK k \in 1..ownerCount : p[k] = o
    BY <2>1, <2>3, <2>4 DEF RingOrder
  <2>6. /\ p[k - 1] \in Address /\ owners[p[k - 1]] = o
    <3>1. k - 1 \in 0..ownerCount /\ k - 1 # ownerCount /\ (k - 1) + 1 = k
      BY <2>1
    <3> QED
      BY <2>3, <2>5, <3>1 DEF RingOrder, Address
  <2>7. \A prev \in Address : owners[prev] = o => prev = p[k - 1]
    <3> SUFFICES ASSUME NEW prev \in Address, owners[prev] = o PROVE prev = p[k - 1]
      OBVIOUS
    <3>1. PICK j \in 1..ownerCount : p[j] = o /\ p[j - 1] = prev
      BY <2>1, <2>3, <2>4, RingPredecessor, OwnerSpace
    <3>2. j = k
      BY <2>1, <2>3, <2>5, <3>1 DEF RingOrder
    <3> QED
      BY <3>1, <3>2
  <2>8. {prev \in Address : CanRemoveOwner(prev, o, 1)} = {p[k - 1]}
    BY <2>1, <2>4, <2>6, <2>7 DEF CanRemoveOwner, ThresholdAccepted, ThresholdFits
  <2> QED
    BY <2>8, FS_Singleton
<1> QED
  BY <1>1, Invariance, PTL

-----------------------------------------------------------------------------
(* The linked list implements OwnerRegistry. *)

\* The registry counts its owners as this module does.
LEMMA RegistryCardinality ==
    ASSUME NEW S
    PROVE  Registry!Cardinality(S) = Cardinality(S)
  BY DEF Registry!Cardinality, Cardinality

\* A quorum that some owners reach is within the number of all accounts.
LEMMA QuorumBound ==
    ASSUME NEW S \in SUBSET Owner, NEW q \in 1..Cardinality(S)
    PROVE  q \in 1..Cardinality(Owner)
<1>1. IsFiniteSet(Owner)
  BY AddressAssumption
<1>2. Cardinality(S) <= Cardinality(Owner) /\ IsFiniteSet(S)
  BY <1>1, FS_Subset
<1>3. Cardinality(Owner) \in Nat /\ Cardinality(S) \in Nat
  BY <1>1, <1>2, FS_CardinalityType
<1> QED
  BY <1>2, <1>3

\* Every owner operation is the operation of the abstract registry that its
\* name says: setup founds, add admits, remove expels, swap replaces.
THEOREM ImplementsRegistry == Spec => RegistrySpec
<1>1. Init => Registry!Init
  BY DEF Init, Registry!Init, OwnerSet, isOwner, Address
<1>2. IInv /\ IInv' /\ [Next]_vars => [Registry!Next]_(Registry!vars)
  <2> SUFFICES ASSUME IInv, IInv', [Next]_vars
               PROVE  [Registry!Next]_(Registry!vars)
    OBVIOUS
  <2>1. OwnerSet' = Members(owners')
    BY DEF IInv, TypeOK, OwnerSet, Members, isOwner
  <2>2. Initialised' => OwnerSet' \subseteq Owner /\ Cardinality(OwnerSet') = ownerCount'
    BY <2>1, RingMembers, OwnerSpace DEF IInv, TypeOK, OwnerRing
  <2>3. ASSUME Initialised'
        PROVE  /\ OwnerSet' \in SUBSET Owner /\ threshold' \in 1..Cardinality(Owner)
               /\ Registry!Enact(OwnerSet', threshold')
    <3>1. OwnerSet' \in SUBSET Owner /\ threshold' \in 1..Cardinality(OwnerSet')
      BY <2>2, <2>3 DEF IInv, TypeOK, Initialised
    <3>2. threshold' \in 1..Cardinality(Owner)
      BY <3>1, QuorumBound
    <3> QED
      BY <3>1, <3>2, RegistryCardinality DEF Registry!Enact, Registry!Operable
  <2>4. ASSUME NEW list \in OwnerList, NEW t \in ThresholdArg, setupOwners(list, t)
        PROVE  Registry!Found
    <3>1. t \in Nat
      BY FS_CardinalityType, AddressAssumption DEF ThresholdArg
    <3>2. Initialised' /\ ~Initialised
      BY <2>4, <3>1 DEF setupOwners, CanSetupOwners, ThresholdFits, Initialised
    <3> QED
      BY <3>2, <2>3, RegistryCardinality DEF Registry!Found, Registry!Founded, Initialised
  <2>5. ASSUME NEW o \in Address, NEW t \in ThresholdArg, addOwnerWithThreshold(o, t)
        PROVE  \E x \in Owner, q \in 1..Cardinality(Owner) : Registry!Admit(x, q)
    <3>1. Initialised /\ o \in Owner /\ owners[o] = Zero
      BY <2>5 DEF addOwnerWithThreshold, CanAddOwner, Admissible, SelfCall, Address
    <3>2. Initialised'
      BY <2>5 DEF IInv, TypeOK, Initialised, addOwnerWithThreshold, CanAddOwner,
                  ThresholdAccepted, ThresholdFits, SelfCall
    <3>3. OwnerSet' = OwnerSet \cup {o}
      <4>1. owners[SENTINEL] # Zero
        BY <3>1, RingHead, OwnerSpace DEF IInv, TypeOK, OwnerRing
      <4> QED
        BY <2>5, <3>1, <4>1, AddressAssumption
            DEF addOwnerWithThreshold, OwnerSet, isOwner, IInv, TypeOK, Address
    <3>4. o \notin OwnerSet
      BY <3>1 DEF OwnerSet, isOwner
    <3> QED
      BY <3>1, <3>2, <3>3, <3>4, <2>3
         DEF Registry!Admit, Registry!Founded, Registry!Enact, Initialised
  <2>6. ASSUME NEW prev \in Address, NEW o \in Address, NEW t \in ThresholdArg,
               removeOwner(prev, o, t)
        PROVE  \E x \in Owner, q \in 1..Cardinality(Owner) : Registry!Expel(x, q)
    <3>1. /\ Initialised
          /\ o \notin {Zero, SENTINEL}
          /\ owners[prev] = o
      BY <2>6 DEF removeOwner, CanRemoveOwner, SelfCall
    <3>2. PICK p \in [0..ownerCount -> Owner \cup {SENTINEL}] :
            RingOrder(owners, ownerCount, p, Owner)
      BY <3>1 DEF IInv, OwnerRing, Ring
    <3>3. PICK k \in 1..ownerCount : p[k] = o /\ p[k - 1] = prev
      BY <3>1, <3>2, RingPredecessor, OwnerSpace DEF IInv, TypeOK
    <3>4. /\ o \in Owner /\ o \in OwnerSet /\ prev # o
          /\ owners[o] # Zero
      <4>1. p[k] \in Owner /\ owners[p[k]] # Zero /\ p[k - 1] # p[k]
        BY <3>2, RingPlace, OwnerSpace DEF IInv, TypeOK
      <4> QED
        BY <3>3, <4>1, AddressAssumption DEF OwnerSet, isOwner, Address
    <3>5. Initialised'
      BY <2>6 DEF IInv, TypeOK, Initialised, removeOwner, CanRemoveOwner,
                  ThresholdAccepted, ThresholdFits, SelfCall
    <3>6. OwnerSet' = OwnerSet \ {o}
      BY <2>6, <3>1, <3>4, AddressAssumption
         DEF removeOwner, OwnerSet, isOwner, IInv, TypeOK, Address
    <3> QED
      BY <3>1, <3>4, <3>5, <3>6, <2>3
         DEF Registry!Expel, Registry!Founded, Registry!Enact, Initialised
  <2>7. ASSUME NEW prev \in Address, NEW old \in Address, NEW new \in Address,
               swapOwner(prev, old, new)
        PROVE  \E x, y \in Owner : Registry!Replace(x, y)
    <3>1. /\ Initialised
          /\ old \notin {Zero, SENTINEL}
          /\ owners[prev] = old
          /\ new \in Owner /\ owners[new] = Zero
      BY <2>7 DEF swapOwner, CanSwapOwner, SelfCall, Admissible, Address
    <3>2. PICK p \in [0..ownerCount -> Owner \cup {SENTINEL}] :
            RingOrder(owners, ownerCount, p, Owner)
      BY <3>1 DEF IInv, OwnerRing, Ring
    <3>3. PICK k \in 1..ownerCount : p[k] = old /\ p[k - 1] = prev
      BY <3>1, <3>2, RingPredecessor, OwnerSpace DEF IInv, TypeOK
    <3>4. /\ old \in Owner /\ old \in OwnerSet /\ prev # old
          /\ owners[old] # Zero
      <4>1. p[k] \in Owner /\ owners[p[k]] # Zero /\ p[k - 1] # p[k]
        BY <3>2, RingPlace, OwnerSpace DEF IInv, TypeOK
      <4> QED
        BY <3>3, <4>1, AddressAssumption DEF OwnerSet, isOwner, Address
    <3>5. Initialised' /\ threshold' = threshold
      BY <2>7, <3>1 DEF swapOwner, Initialised
    <3>6. OwnerSet' = (OwnerSet \ {old}) \cup {new}
      BY <2>7, <3>1, <3>4, AddressAssumption
         DEF swapOwner, OwnerSet, isOwner, IInv, TypeOK, Address
    <3>7. new \notin OwnerSet
      BY <3>1 DEF OwnerSet, isOwner
    <3> QED
      BY <3>1, <3>4, <3>5, <3>6, <3>7, <2>3
         DEF Registry!Replace, Registry!Founded, Registry!Enact, Initialised
  <2>8. ASSUME NEW t \in ThresholdArg, changeThreshold(t)
        PROVE  \E q \in 1..Cardinality(Owner) : Registry!SetQuorum(q)
    <3>1. Initialised /\ OwnerSet' = OwnerSet
      BY <2>8 DEF changeThreshold, SelfCall, OwnerSet, isOwner
    <3>2. Initialised'
      BY <2>8 DEF IInv, TypeOK, Initialised, changeThreshold, ThresholdFits
    <3> QED
      BY <3>1, <3>2, <2>3
         DEF Registry!SetQuorum, Registry!Founded, Registry!Enact, Initialised
  <2>9. CASE UNCHANGED vars
    BY <2>9 DEF vars, Registry!vars, OwnerSet, isOwner
  <2> QED
    <3>1. CASE \E list \in OwnerList, t \in ThresholdArg : setupOwners(list, t)
      BY <3>1, <2>4, RegistryCardinality DEF Registry!Next
    <3>2. CASE \E o \in Address, t \in ThresholdArg : addOwnerWithThreshold(o, t)
      BY <3>2, <2>5, RegistryCardinality DEF Registry!Next
    <3>3. CASE \E prev, o \in Address, t \in ThresholdArg : removeOwner(prev, o, t)
      BY <3>3, <2>6, RegistryCardinality DEF Registry!Next
    <3>4. CASE \E prev, old, new \in Address : swapOwner(prev, old, new)
      BY <3>4, <2>7 DEF Registry!Next
    <3>5. CASE \E t \in ThresholdArg : changeThreshold(t)
      BY <3>5, <2>8, RegistryCardinality DEF Registry!Next
    <3> QED
      BY <3>1, <3>2, <3>3, <3>4, <3>5, <2>9 DEF Next
<1> QED
  BY <1>1, <1>2, Invariance, PTL DEF Spec, RegistrySpec, Registry!Spec
-----------------------------------------------------------------------------
(* getOwners *)

\* The walk of getOwners is the recursive function that its loop computes.
LEMMA OwnerWalk ==
    ASSUME owners \in [Address -> Address]
    PROVE  Walk \in [Nat -> Address] /\ Walks(Walk, owners, SENTINEL)
<1>1. SENTINEL \in Address
  BY DEF Address
<1>2. Walk = [k \in Nat |-> IF k = 0 THEN owners[SENTINEL] ELSE owners[Walk[k - 1]]]
  BY <1>1, WalkExists DEF Walk
<1> QED
  BY <1>1, <1>2, WalkType
\* On a ring the loop of getOwners stops right behind the last owner and
\* has written the owners in the order of the links.
LEMMA GetOwnersReadsRing ==
    ASSUME TypeOK, NEW p \in [0..ownerCount -> Owner \cup {SENTINEL}],
           RingOrder(owners, ownerCount, p, Owner)
    PROVE  /\ Stops = {ownerCount}
           /\ \A i \in 1..ownerCount : getOwners[i] = p[i]
<1>1. owners \in [Address -> Address] /\ ownerCount \in Nat
  BY DEF TypeOK
<1>2. p[0] = SENTINEL /\ SENTINEL \notin Owner
  BY AddressAssumption DEF RingOrder
<1>3. /\ \A k \in Nat : k < ownerCount => Walk[k] = p[k + 1]
      /\ Walk[ownerCount] = SENTINEL
  <2> HIDE DEF Walk
  <2>1. PICK b \in 0..ownerCount : b = 0 /\ Walks(Walk, owners, p[b])
    <3>1. 0 \in 0..ownerCount /\ Walks(Walk, owners, p[0])
      BY <1>1, <1>2, OwnerWalk
    <3> QED
      BY <3>1
  <2>2. Passes(Walk, p, ownerCount, b)
    BY <1>1, <2>1, RingWalk
  <2>3. ownerCount - b = ownerCount /\ \A k \in Nat : b + k + 1 = k + 1
    BY <1>1, <2>1
  <2> QED
    BY <2>2, <2>3 DEF Passes
<1>4. Stops = {ownerCount}
  <2>1. \A k \in 0..ownerCount : k # ownerCount => Walk[k] # SENTINEL
    <3> SUFFICES ASSUME NEW k \in 0..ownerCount, k # ownerCount
                 PROVE  Walk[k] # SENTINEL
      OBVIOUS
    <3>1. k + 1 \in 1..ownerCount /\ Walk[k] = p[k + 1]
      BY <1>1, <1>3
    <3> QED
      BY <3>1, <1>2 DEF RingOrder
  <2>2. ownerCount \in 0..ownerCount /\ Walk[ownerCount] = SENTINEL
    BY <1>1, <1>3
  <2> QED
    BY <2>1, <2>2 DEF Stops
<1>5. ASSUME NEW i \in 1..ownerCount
      PROVE  getOwners[i] = p[i]
  <2>1. ~ \E k \in Stops : k < i
    BY <1>1, <1>4
  <2>2. getOwners[i] = Walk[i - 1]
    BY <2>1 DEF getOwners
  <2>3. i - 1 \in Nat /\ i - 1 < ownerCount /\ (i - 1) + 1 = i
    BY <1>1
  <2> QED
    BY <1>3, <2>2, <2>3
<1> QED
  BY <1>4, <1>5

\* getOwners never runs past its array of ownerCount entries and returns
\* exactly the addresses that isOwner accepts, each once, for any number of
\* owners and whatever operations the list went through.
THEOREM GetOwnersCorrect == Spec => []GetOwnersExact
<1>1. IInv => GetOwnersExact
  <2> SUFFICES ASSUME IInv, Initialised
               PROVE  /\ getOwnersReturns
                      /\ {getOwners[i] : i \in 1..ownerCount} = OwnerSet
                      /\ Cardinality(OwnerSet) = ownerCount
    BY DEF GetOwnersExact
  <2>1. TypeOK /\ OwnerRing
    BY DEF IInv
  <2>2. owners \in [Address -> Address] /\ owners[Zero] = Zero /\ ownerCount \in Nat
    BY <2>1 DEF TypeOK
  <2>3. PICK p \in [0..ownerCount -> Owner \cup {SENTINEL}] :
          RingOrder(owners, ownerCount, p, Owner)
    BY <2>1 DEF OwnerRing, Ring
  <2>4. Stops = {ownerCount} /\ \A i \in 1..ownerCount : getOwners[i] = p[i]
    BY <2>1, <2>3, GetOwnersReadsRing
  <2>5. \A i \in 1..ownerCount : p[i] \in OwnerSet
    <3> SUFFICES ASSUME NEW i \in 1..ownerCount
                 PROVE  p[i] \in OwnerSet
      OBVIOUS
    <3>1. p[i] \in Owner /\ owners[p[i]] # Zero
      BY <2>2, <2>3, RingPlace, OwnerSpace
    <3> QED
      BY <3>1, AddressAssumption DEF OwnerSet, isOwner, Address
  <2>6. \A a \in OwnerSet : \E i \in 1..ownerCount : p[i] = a
    BY <2>2, <2>3 DEF OwnerSet, isOwner, RingOrder
  <2>7. Cardinality(OwnerSet) = ownerCount
    BY <2>1, <2>2, RingMembers, OwnerSpace, OwnerSetIsMembers DEF OwnerRing
  <2>8. getOwnersReturns
    BY <2>4 DEF getOwnersReturns
  <2>9. {getOwners[i] : i \in 1..ownerCount} = OwnerSet
    <3>1. \A i \in 1..ownerCount : getOwners[i] \in OwnerSet
      BY <2>4, <2>5
    <3>2. \A a \in OwnerSet : \E i \in 1..ownerCount : getOwners[i] = a
      BY <2>4, <2>6
    <3> QED
      BY <3>1, <3>2
  <2> QED
    BY <2>7, <2>8, <2>9
<1> QED
  BY <1>1, Invariance, PTL
=============================================================================
