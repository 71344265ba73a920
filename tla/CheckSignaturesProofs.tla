------------------------ MODULE CheckSignaturesProofs ------------------------
(***************************************************************************)
(* For every set of accounts, threshold and packing of signatures: the     *)
(* loop of checkNSignatures accepts what a quorum confirms in ascending    *)
(* order, and nothing else; every quorum can present itself in this way;   *)
(* and the script of CheckIssuer, at the other end, does.                  *)
(***************************************************************************)
EXTENDS CheckSignatures, CheckIssuer, FunctionTheorems, FiniteSetTheorems, SequenceTheorems,
        WellFoundedInduction, TLAPS

\* The loop has counted i owners, all of them confirming the hash; the last
\* one is the greatest, so a next owner above it cannot be among them.
LoopInv ==
    /\ counted \subseteq Confirmers(call.dataHash, call.data, call.sender)
    /\ Cardinality(counted) = i
    /\ \A a \in counted : a <= lastOwner
    /\ i <= threshold /\ threshold <= Len(call.signatures)

IInv ==
    /\ TypeOK
    /\ pc \in {"loop", "accepted"} => LoopInv /\ threshold > 0
    /\ pc = "accepted" => i = threshold

LEMMA ThresholdType ==
    ASSUME Init
    PROVE  threshold \in Nat
<1>1. owners \in SUBSET Account /\ IsFiniteSet(owners)
  BY SignatureAssumption, FS_Subset DEF Init
<1> QED
  BY <1>1, FS_CardinalityType DEF Init

LEMMA InitIInv == Init => IInv
  BY ThresholdType, SignatureAssumption DEF Init, IInv, TypeOK, Nobody

\* A signature that counts names an account that confirms the hash.
LEMMA CountedConfirms ==
    ASSUME TypeOK, NEW sig \in Signature, NEW h \in Hash, NEW d \in Data, NEW sender, NEW last,
           SignatureCounts(sig, h, d, sender, last)
    PROVE  currentOwner(sig, h) \in Confirmers(h, d, sender)
<1> DEFINE a == currentOwner(sig, h)
<1>1. a \in owners /\ a \in Account /\ a # Nobody
  BY SignatureAssumption DEF SignatureCounts, TypeOK, Nobody
<1>2. CASE sig \in ECDSASignature
  <2>1. PICK v \in {"eoa", "ethSign"}, s \in Signed :
          sig = [v |-> v, by |-> s[1], over |-> s[2]]
    BY <1>2 DEF ECDSASignature
  <2>2. s = <<s[1], s[2]>> /\ s \in Signed
    BY <2>1, SignatureAssumption
  <2>3. CASE sig.v = "eoa"
    <3>1. sig.over = <<"plain", h>> /\ a = s[1]
      BY <1>1, <2>1, <2>3 DEF currentOwner, ecrecover
    <3> QED
      BY <1>1, <2>1, <2>2, <3>1 DEF Confirmers, Confirms
  <2>4. CASE sig.v = "ethSign"
    <3>1. sig.over = <<"prefixed", h>> /\ a = s[1]
      BY <1>1, <2>1, <2>4 DEF currentOwner, ecrecover
    <3> QED
      BY <1>1, <2>1, <2>2, <3>1 DEF Confirmers, Confirms
  <2> QED
    BY <2>1, <2>3, <2>4
<1>3. CASE sig \in ApprovedHashSignature
  BY <1>1, <1>3 DEF ApprovedHashSignature, SignatureCounts, BranchAccepts,
                    currentOwner, Confirmers, Confirms
<1>4. CASE sig \in ContractSignature
  BY <1>1, <1>4 DEF ContractSignature, SignatureCounts, BranchAccepts,
                    currentOwner, Confirmers, Confirms
<1> QED
  BY <1>2, <1>3, <1>4 DEF Signature

LEMMA StartStep ==
    ASSUME IInv, NEW h \in Hash, NEW d \in Data, NEW sigs \in Signatures, NEW sender \in Caller,
           checkSignatures(h, d, sigs, sender)
    PROVE  IInv'
<1>1. sigs \in Seq(Signature)
  BY SignatureAssumption DEF Signatures
<1>2. TypeOK'
  BY <1>1 DEF checkSignatures, wallet, IInv, TypeOK, Nobody
<1>3. CASE CanStart(sigs)
  <2>1. Cardinality({}) = 0
    BY FS_EmptySet
  <2> QED
    BY <1>2, <1>3, <2>1 DEF checkSignatures, CanStart, wallet, IInv, TypeOK, LoopInv
<1>4. CASE ~CanStart(sigs)
  BY <1>2, <1>4 DEF checkSignatures, IInv
<1> QED
  BY <1>3, <1>4

LEMMA IterateStep ==
    ASSUME IInv, Iterate
    PROVE  IInv'
<1> DEFINE owner == currentOwner(CurrentSignature, call.dataHash)
<1>1. LoopInv /\ threshold > 0 /\ i < threshold
  BY DEF Iterate, IInv
<1>2. CASE ~SignatureCounts(CurrentSignature, call.dataHash, call.data, call.sender, lastOwner)
  BY <1>2 DEF Iterate, IInv, TypeOK
<1>3. CASE SignatureCounts(CurrentSignature, call.dataHash, call.data, call.sender, lastOwner)
  <2>1. /\ lastOwner' = owner /\ counted' = counted \cup {owner} /\ i' = i + 1
        /\ pc' = "loop" /\ call' = call /\ UNCHANGED wallet
    BY <1>3 DEF Iterate, wallet
  <2>2. owner \in owners /\ owner > lastOwner /\ owner \in Nat
    BY <1>3, SignatureAssumption DEF SignatureCounts, InOrder, IInv, TypeOK
  <2>3. owner \in Confirmers(call.dataHash, call.data, call.sender)
    <3>1. CurrentSignature \in Signature /\ call.dataHash \in Hash /\ call.data \in Data
      BY <1>1 DEF CurrentSignature, LoopInv, IInv, TypeOK, Iterate
    <3> QED
      BY <1>3, <3>1, CountedConfirms DEF IInv
  <2>4. owner \notin counted
    BY <1>1, <2>2 DEF LoopInv, IInv, TypeOK
  <2>5. Cardinality(counted') = i'
    <3>1. IsFiniteSet(counted)
      BY SignatureAssumption, FS_Subset DEF IInv, TypeOK
    <3> QED
      BY <1>1, <2>1, <2>4, <3>1, FS_AddElement DEF LoopInv
  <2>6. LoopInv'
    <3>1. Confirmers(call.dataHash, call.data, call.sender)' = Confirmers(call.dataHash, call.data, call.sender)
      BY <2>1 DEF Confirmers, Confirms, wallet
    <3>2. counted' \subseteq Confirmers(call.dataHash, call.data, call.sender)'
      BY <1>1, <2>1, <2>3, <3>1 DEF LoopInv
    <3>3. \A a \in counted' : a <= lastOwner'
      BY <1>1, <2>1, <2>2, SignatureAssumption DEF LoopInv, IInv, TypeOK
    <3>4. i' <= threshold' /\ threshold' <= Len(call'.signatures)
      BY <1>1, <2>1 DEF wallet, LoopInv, IInv, TypeOK
    <3> QED
      BY <2>5, <3>2, <3>3, <3>4 DEF LoopInv
  <2>7. TypeOK'
    <3>1. owner \in Account /\ pc # "idle"
      BY <2>2 DEF Iterate, IInv, TypeOK
    <3>2. counted' \in SUBSET Account /\ i' \in Nat /\ lastOwner' \in Nat
      BY <2>1, <2>2, <3>1 DEF IInv, TypeOK
    <3> HIDE DEF owner
    <3> QED
      BY <2>1, <3>1, <3>2 DEF IInv, TypeOK, wallet
  <2> QED
    BY <1>1, <2>1, <2>6, <2>7 DEF IInv, wallet
<1> QED
  BY <1>2, <1>3

LEMMA NextIInv == IInv /\ [Next]_vars => IInv'
<1> SUFFICES ASSUME IInv, [Next]_vars
             PROVE  IInv'
  OBVIOUS
<1>1. ASSUME NEW sender \in Account, NEW h \in Hash, approveHash(sender, h)
      PROVE  IInv'
  BY <1>1 DEF approveHash, IInv, TypeOK
<1>2. ASSUME NEW h \in Hash, NEW d \in Data, NEW sigs \in Signatures, NEW sender \in Caller,
             checkSignatures(h, d, sigs, sender)
      PROVE  IInv'
  BY <1>2, StartStep
<1>3. CASE Iterate
  BY <1>3, IterateStep
<1>4. CASE EndOfLoop
  BY <1>4 DEF EndOfLoop, IInv, TypeOK, LoopInv, Confirmers, Confirms
<1>5. CASE Return
  BY <1>5 DEF Return, IInv, TypeOK, wallet, Nobody
<1>6. CASE endorse
  BY <1>6 DEF endorse, IInv, TypeOK
<1>7. CASE UNCHANGED vars
  BY <1>7 DEF vars, IInv, TypeOK, LoopInv, Confirmers, Confirms
<1> QED
  BY <1>1, <1>2, <1>3, <1>4, <1>5, <1>6, <1>7 DEF Next

\* The variables keep their types in every reachable state.
THEOREM TypeCorrect == Spec => []TypeOK
<1>1. IInv => TypeOK
  BY DEF IInv
<1> QED
  BY <1>1, InitIInv, NextIInv, PTL DEF Spec

\* What checkSignatures accepts, at least threshold different current
\* owners confirm, for any number of owners and any packing of signatures.
THEOREM Soundness == Spec => []QuorumSound
<1>1. IInv => QuorumSound
  <2> SUFFICES ASSUME IInv, pc = "accepted"
               PROVE  /\ threshold > 0
                      /\ Cardinality(Confirmers(call.dataHash, call.data, call.sender)) >= threshold
    BY DEF QuorumSound
  <2> DEFINE C == Confirmers(call.dataHash, call.data, call.sender)
  <2>1. counted \subseteq C /\ Cardinality(counted) = threshold /\ threshold > 0
    BY DEF IInv, LoopInv
  <2>2. C \subseteq Account
    BY DEF Confirmers, IInv, TypeOK
  <2>3. IsFiniteSet(C)
    BY <2>2, SignatureAssumption, FS_Subset
  <2>4. Cardinality(counted) <= Cardinality(C) /\ Cardinality(C) \in Nat
    BY <2>1, <2>3, FS_Subset, FS_CardinalityType
  <2> QED
    BY <2>1, <2>4
<1> QED
  BY <1>1, InitIInv, NextIInv, PTL DEF Spec
-----------------------------------------------------------------------------
(* The loop decides as the reference does. *)

\* The account that the k-th signature of the call names.
Named(k) == currentOwner(call.signatures[k], call.dataHash)

\* The k-th signature meets all that the reference asks of it.
Fits(k) ==
    /\ BranchAccepts(call.signatures[k], call.dataHash, call.data, call.sender)
    /\ Named(k) \in owners
    /\ \A j \in 1..(k - 1) : Named(j) < Named(k)

\* The signatures counted so far all fit and lastOwner is the account of the
\* last one: comparing with lastOwner is comparing with all of them.  A call
\* that has reverted met a signature that does not fit, or too few of them.
ScanInv ==
    /\ pc \in {"loop", "accepted"} =>
          /\ \A k \in 1..i : Fits(k)
          /\ lastOwner = IF i = 0 THEN Nobody ELSE Named(i)
    /\ pc = "reverted" => ~Accepts(call.dataHash, call.data, call.signatures, call.sender)

LEMMA AcceptsWhenAllFit ==
    Accepts(call.dataHash, call.data, call.signatures, call.sender) <=>
        threshold \in 1..Len(call.signatures) /\ \A k \in 1..threshold : Fits(k)
  BY DEF Accepts, Fits, Named

LEMMA StartScan ==
    ASSUME IInv, NEW h \in Hash, NEW d \in Data, NEW sigs \in Signatures, NEW sender \in Caller,
           checkSignatures(h, d, sigs, sender)
    PROVE  ScanInv'
<1>1. /\ call' = [dataHash |-> h, data |-> d, signatures |-> sigs, sender |-> sender]
      /\ pc' = IF CanStart(sigs) THEN "loop" ELSE "reverted"
      /\ i' = 0 /\ lastOwner' = Nobody /\ threshold' = threshold
  BY DEF checkSignatures, wallet
<1>2. CASE CanStart(sigs)
  BY <1>1, <1>2 DEF ScanInv
<1>3. CASE ~CanStart(sigs)
  <2>1. sigs \in Seq(Signature) /\ threshold \in Nat
    BY SignatureAssumption DEF Signatures, IInv, TypeOK
  <2>2. threshold \notin 1..Len(sigs)
    BY <1>3, <2>1 DEF CanStart
  <2>3. ~Accepts(call.dataHash, call.data, call.signatures, call.sender)'
    BY <1>1, <2>2 DEF Accepts
  <2> QED
    BY <1>1, <1>3, <2>3 DEF ScanInv
<1> QED
  BY <1>2, <1>3

LEMMA IterateScan ==
    ASSUME IInv, ScanInv, Iterate
    PROVE  ScanInv'
<1>1. /\ pc = "loop" /\ i < threshold /\ i \in Nat /\ threshold \in Nat
      /\ threshold <= Len(call.signatures)
      /\ \A k \in 1..i : Fits(k)
      /\ lastOwner = IF i = 0 THEN Nobody ELSE Named(i)
      /\ owners \subseteq Nat \ {0, 1} /\ lastOwner \in Nat
  BY SignatureAssumption DEF Iterate, IInv, LoopInv, TypeOK, ScanInv
<1>2. /\ call' = call /\ owners' = owners /\ threshold' = threshold
      /\ approvedHashes' = approvedHashes /\ endorsed' = endorsed
  BY DEF Iterate
<1>3. \A k : Named(k)' = Named(k)
  BY <1>2 DEF Named, currentOwner, ecrecover
<1>4. \A k : Fits(k)' <=> Fits(k)
  BY <1>2, <1>3 DEF Fits, BranchAccepts
<1>5. CurrentSignature = call.signatures[i + 1]
      /\ currentOwner(CurrentSignature, call.dataHash) = Named(i + 1)
  BY DEF CurrentSignature, Named
<1>6. CASE SignatureCounts(CurrentSignature, call.dataHash, call.data, call.sender, lastOwner)
  <2>1. pc' = "loop" /\ i' = i + 1 /\ lastOwner' = Named(i + 1)
    BY <1>1, <1>5, <1>6 DEF Iterate
  <2>2. /\ BranchAccepts(call.signatures[i + 1], call.dataHash, call.data, call.sender)
        /\ Named(i + 1) \in owners /\ Named(i + 1) > lastOwner
    BY <1>5, <1>6 DEF SignatureCounts, InOrder
  <2>3. \A j \in 1..i : Named(j) < Named(i + 1)
    <3> SUFFICES ASSUME NEW j \in 1..i
                 PROVE  Named(j) < Named(i + 1)
      OBVIOUS
    <3>1. lastOwner = Named(i) /\ Named(j) \in Nat /\ Named(i) \in Nat /\ Named(i + 1) \in Nat
      <4>1. i # 0 /\ i \in 1..i
        BY <1>1
      <4>2. Named(i) \in owners /\ Named(j) \in owners
        BY <1>1, <4>1 DEF Fits
      <4>3. lastOwner = Named(i)
        BY <1>1, <4>1
      <4>4. \A a \in owners : a \in Nat
        BY <1>1
      <4> QED
        BY <2>2, <4>2, <4>3, <4>4
    <3>2. CASE j = i
      BY <2>2, <3>1, <3>2
    <3>3. CASE j # i
      <4>1. Fits(i) /\ j \in 1..(i - 1)
        BY <1>1, <3>3
      <4>2. Named(j) < Named(i)
        BY <4>1 DEF Fits
      <4> QED
        BY <2>2, <3>1, <4>2
    <3> QED
      BY <3>2, <3>3
  <2>4. Fits(i + 1)
    <3>1. (i + 1) - 1 = i
      BY <1>1
    <3> QED
      BY <2>2, <2>3, <3>1 DEF Fits
  <2>5. \A k \in 1..(i + 1) : Fits(k)
    <3>1. \A k \in 1..(i + 1) : k \in 1..i \/ k = i + 1
      BY <1>1
    <3> QED
      BY <1>1, <2>4, <3>1
  <2>6. \A k \in 1..i' : Fits(k)'
    BY <1>4, <2>1, <2>5
  <2>7. lastOwner' = IF i' = 0 THEN Nobody ELSE Named(i)'
    <3>1. Named(i)' = Named(i + 1)
      BY <1>2, <2>1 DEF Named, currentOwner, ecrecover
    <3>2. i' # 0
      BY <1>1, <2>1
    <3> QED
      BY <2>1, <3>1, <3>2
  <2> QED
    BY <2>1, <2>6, <2>7 DEF ScanInv
<1>7. CASE ~SignatureCounts(CurrentSignature, call.dataHash, call.data, call.sender, lastOwner)
  <2>1. pc' = "reverted"
    BY <1>7 DEF Iterate
  <2>2. ~Fits(i + 1)
    <3> SUFFICES ASSUME Fits(i + 1)
                 PROVE  FALSE
      OBVIOUS
    <3>1. /\ BranchAccepts(call.signatures[i + 1], call.dataHash, call.data, call.sender)
          /\ Named(i + 1) \in owners /\ \A j \in 1..i : Named(j) < Named(i + 1)
      <4>1. (i + 1) - 1 = i
        BY <1>1
      <4> QED
        BY <4>1 DEF Fits
    <3>2. Named(i + 1) > lastOwner
      <4>1. CASE i = 0
        <5>1. lastOwner = 0
          BY <1>1, <4>1 DEF Nobody
        <5>2. Named(i + 1) \in Nat \ {0, 1}
          BY <1>1, <3>1
        <5> QED
          BY <5>1, <5>2
      <4>2. CASE i # 0
        <5>1. i \in 1..i /\ lastOwner = Named(i)
          BY <1>1, <4>2
        <5> QED
          BY <1>1, <3>1, <5>1
      <4> QED
        BY <4>1, <4>2
    <3> QED
      BY <1>5, <1>7, <3>1, <3>2 DEF SignatureCounts, InOrder
  <2>3. i + 1 \in 1..threshold
    BY <1>1
  <2>4. ~Accepts(call.dataHash, call.data, call.signatures, call.sender)
    BY <2>2, <2>3, AcceptsWhenAllFit
  <2>5. Accepts(call.dataHash, call.data, call.signatures, call.sender)'
          <=> Accepts(call.dataHash, call.data, call.signatures, call.sender)
    BY <1>2 DEF Accepts, BranchAccepts, currentOwner, ecrecover
  <2> QED
    BY <2>1, <2>4, <2>5 DEF ScanInv
<1> QED
  BY <1>6, <1>7

LEMMA NextScan ==
    ASSUME IInv, ScanInv, [Next]_vars
    PROVE  ScanInv'
<1>1. ASSUME NEW sender \in Account, NEW h \in Hash, approveHash(sender, h)
      PROVE  ScanInv'
  BY <1>1 DEF approveHash, ScanInv
<1>2. ASSUME NEW h \in Hash, NEW d \in Data, NEW sigs \in Signatures, NEW sender \in Caller,
             checkSignatures(h, d, sigs, sender)
      PROVE  ScanInv'
  BY <1>2, StartScan
<1>3. CASE Iterate
  BY <1>3, IterateScan
<1>4. CASE EndOfLoop
  <2>1. /\ pc = "loop" /\ pc' = "accepted" /\ i' = i /\ lastOwner' = lastOwner
        /\ call' = call /\ owners' = owners /\ approvedHashes' = approvedHashes /\ endorsed' = endorsed
    BY <1>4 DEF EndOfLoop
  <2>2. \A k : Named(k)' = Named(k)
    BY <2>1 DEF Named, currentOwner, ecrecover
  <2>3. \A k : Fits(k)' <=> Fits(k)
    BY <2>1, <2>2 DEF Fits, BranchAccepts
  <2>4. Named(i)' = Named(i)
    BY <2>1 DEF Named, currentOwner, ecrecover
  <2> QED
    BY <2>1, <2>3, <2>4 DEF ScanInv
<1>5. CASE Return
  BY <1>5 DEF Return, ScanInv
<1>6. CASE endorse
  BY <1>6 DEF endorse, ScanInv
<1>7. CASE UNCHANGED vars
  BY <1>7 DEF vars, ScanInv, Fits, Named, Accepts, BranchAccepts, currentOwner, ecrecover
<1> QED
  BY <1>1, <1>2, <1>3, <1>4, <1>5, <1>6, <1>7 DEF Next

\* The loop, which compares each account with the last one only and stops at
\* the first signature that fails, accepts exactly the calls whose first
\* threshold signatures all hold and name owners in strictly ascending order.
THEOREM Decision == Spec => []LoopDecides
<1>1. Init => ScanInv
  BY DEF Init, ScanInv
<1>2. IInv /\ ScanInv /\ [Next]_vars => ScanInv'
  BY NextScan
<1>3. IInv /\ ScanInv => LoopDecides
  <2> SUFFICES ASSUME IInv, ScanInv
               PROVE  LoopDecides
    OBVIOUS
  <2>1. ASSUME pc = "accepted"
        PROVE  Accepts(call.dataHash, call.data, call.signatures, call.sender)
    <3>1. i = threshold /\ threshold > 0 /\ threshold \in Nat
          /\ threshold <= Len(call.signatures) /\ \A k \in 1..i : Fits(k)
      BY <2>1 DEF IInv, LoopInv, TypeOK, ScanInv
    <3>2. Len(call.signatures) \in Nat
      BY <2>1 DEF IInv, TypeOK
    <3>3. threshold \in 1..Len(call.signatures)
      BY <3>1, <3>2
    <3> QED
      BY <3>1, <3>3, AcceptsWhenAllFit
  <2> QED
    BY <2>1 DEF LoopDecides, ScanInv
<1> QED
  BY <1>1, <1>2, <1>3, InitIInv, NextIInv, PTL DEF Spec
-----------------------------------------------------------------------------
(* A quorum can be presented. *)

\* A nonempty set of naturals has a least element.
LEMMA LeastNatural ==
    ASSUME NEW T \in SUBSET Nat, T # {}
    PROVE  \E x \in T : \A y \in T : x <= y
<1>1. IsWellFoundedOn(OpToRel(<, Nat), Nat)
  BY NatLessThanWellFounded
<1>2. PICK x \in T : \A y \in T : ~(<<y, x>> \in OpToRel(<, Nat))
  BY <1>1, WFMin
<1>3. \A y \in T : ~(y < x)
  BY <1>2 DEF OpToRel
<1> QED
  BY <1>3

\* Induction over the naturals, for a set in place of a predicate.
LEMMA InductionOnNat ==
    ASSUME NEW S, 0 \in S, \A n \in Nat : n \in S => n + 1 \in S
    PROVE  \A n \in Nat : n \in S
<1> DEFINE T == Nat \ S
<1>1. CASE T # {}
  <2>1. PICK x \in T : \A y \in T : x <= y
    BY <1>1, LeastNatural
  <2>2. x - 1 \in Nat /\ x - 1 \notin T
    BY <2>1
  <2> QED
    BY <2>1, <2>2
<1> QED
  BY <1>1

\* f lists t members of S in ascending order.
Lists(f, t, S) ==
    f \in [1..t -> S] /\ \A x, y \in 1..t : x < y => f[x] < f[y]

\* Any t members of a set of numbers can be put in ascending order: the
\* least one first, then the others.
LEMMA SortedEnumeration ==
    ASSUME NEW S \in SUBSET Nat, IsFiniteSet(S),
           NEW t \in Nat, Cardinality(S) >= t
    PROVE  \E f : Lists(f, t, S)
<1> DEFINE Listable == {n \in Nat : \A T \in SUBSET Nat :
                          IsFiniteSet(T) /\ Cardinality(T) >= n => \E f : Lists(f, n, T)}
<1>1. 0 \in Listable
  <2> SUFFICES ASSUME NEW T \in SUBSET Nat
               PROVE  \E f : Lists(f, 0, T)
    OBVIOUS
  <2> DEFINE f == [k \in 1..0 |-> 0]
  <2>1. Lists(f, 0, T)
    BY DEF Lists
  <2> QED
    BY <2>1
<1>2. ASSUME NEW n \in Nat, n \in Listable
      PROVE  n + 1 \in Listable
  <2> SUFFICES ASSUME NEW T \in SUBSET Nat, IsFiniteSet(T), Cardinality(T) >= n + 1
               PROVE  \E f : Lists(f, n + 1, T)
    OBVIOUS
  <2>1. Cardinality(T) \in Nat /\ T # {}
    <3>1. Cardinality(T) \in Nat
      BY FS_CardinalityType
    <3>2. Cardinality(T) # 0
      BY <3>1
    <3> QED
      BY <3>1, <3>2, FS_EmptySet
  <2>2. PICK m \in T : \A x \in T : m <= x
    BY <2>1, LeastNatural
  <2> DEFINE R == T \ {m}
  <2>3. IsFiniteSet(R) /\ Cardinality(R) = Cardinality(T) - 1
    BY FS_RemoveElement
  <2>4. Cardinality(R) >= n
    BY <2>1, <2>3
  <2>5. R \in SUBSET Nat /\ \A x \in R : x \in T /\ m < x
    BY <2>2
  <2>6. PICK g : Lists(g, n, R)
    <3> HIDE DEF R
    <3> QED
      BY <1>2, <2>3, <2>4, <2>5
  <2> HIDE DEF R
  <2> DEFINE f == [k \in 1..(n + 1) |-> IF k = 1 THEN m ELSE g[k - 1]]
  <2>7. \A k \in 1..n : g[k] \in R
    BY <2>6 DEF Lists
  <2>8. \A k \in 1..(n + 1) : f[k] \in T
    <3> SUFFICES ASSUME NEW k \in 1..(n + 1)
                 PROVE  f[k] \in T
      OBVIOUS
    <3>1. CASE k = 1
      BY <3>1
    <3>2. CASE k # 1
      <4>1. k - 1 \in 1..n
        BY <3>2
      <4> QED
        BY <3>2, <4>1, <2>5, <2>7
    <3> QED
      BY <3>1, <3>2
  <2>9. ASSUME NEW x \in 1..(n + 1), NEW y \in 1..(n + 1), x < y
        PROVE  f[x] < f[y]
    <3>1. y - 1 \in 1..n /\ f[y] = g[y - 1]
      BY <2>9
    <3>2. CASE x = 1
      BY <2>5, <2>7, <3>1, <3>2
    <3>3. CASE x # 1
      <4>1. x - 1 \in 1..n /\ x - 1 < y - 1 /\ f[x] = g[x - 1]
        BY <2>9, <3>3
      <4> QED
        BY <2>6, <3>1, <4>1 DEF Lists
    <3> QED
      BY <3>2, <3>3
  <2>10. Lists(f, n + 1, T)
    BY <2>8, <2>9 DEF Lists
  <2> QED
    <3> HIDE DEF f
    <3> QED
      BY <2>10
<1>3. t \in Listable
  <2> HIDE DEF Listable
  <2> QED
    BY <1>1, <1>2, InductionOnNat
<1> QED
  BY <1>3

\* sig shows that a confirms h.
Shows(sig, a, h, d, sender) == BranchAccepts(sig, h, d, sender) /\ currentOwner(sig, h) = a

LEMMA KeySignature ==
    ASSUME NEW kind \in {"eoa", "ethSign"}, NEW s \in Signed
    PROVE  [v |-> kind, by |-> s[1], over |-> s[2]] \in ECDSASignature
<1> DEFINE Made(v, t) == [v |-> v, by |-> t[1], over |-> t[2]]
<1> HIDE DEF Made
<1>1. Made(kind, s) \in {Made(v, t) : v \in {"eoa", "ethSign"}, t \in Signed}
  OBVIOUS
<1>2. {Made(v, t) : v \in {"eoa", "ethSign"}, t \in Signed} = ECDSASignature
  BY DEF ECDSASignature, Made
<1>3. Made(kind, s) \in ECDSASignature
  BY <1>1, <1>2
<1> QED
  BY <1>3 DEF Made

\* Every way to confirm a hash has a kind of signature that shows it.
LEMMA ConfirmationShown ==
    ASSUME NEW a \in Account, NEW h \in Hash, NEW d \in Data, NEW sender, Confirms(a, h, d, sender)
    PROVE  \E sig \in Signature : Shows(sig, a, h, d, sender)
<1>1. CASE <<a, <<"plain", h>>>> \in Signed
  <2> DEFINE sig == [v |-> "eoa", by |-> a, over |-> <<"plain", h>>]
  <2>1. sig \in ECDSASignature
    <3>1. PICK s \in Signed : s[1] = a /\ s[2] = <<"plain", h>>
      BY <1>1
    <3>2. [v |-> "eoa", by |-> s[1], over |-> s[2]] \in ECDSASignature
      BY KeySignature
    <3> QED
      BY <3>1, <3>2
  <2>2. Shows(sig, a, h, d, sender)
    BY DEF Shows, BranchAccepts, currentOwner, ecrecover
  <2> QED
    BY <2>1, <2>2 DEF Signature
<1>2. CASE <<a, <<"prefixed", h>>>> \in Signed
  <2> DEFINE sig == [v |-> "ethSign", by |-> a, over |-> <<"prefixed", h>>]
  <2>1. sig \in ECDSASignature
    <3>1. PICK s \in Signed : s[1] = a /\ s[2] = <<"prefixed", h>>
      BY <1>2
    <3>2. [v |-> "ethSign", by |-> s[1], over |-> s[2]] \in ECDSASignature
      BY KeySignature
    <3> QED
      BY <3>1, <3>2
  <2>2. Shows(sig, a, h, d, sender)
    BY DEF Shows, BranchAccepts, currentOwner, ecrecover
  <2> QED
    BY <2>1, <2>2 DEF Signature
<1>3. CASE <<a, d>> \in endorsed
  <2> DEFINE sig == [v |-> "contract", by |-> a, placed |-> TRUE]
  <2>1. sig \in ContractSignature
    BY DEF ContractSignature
  <2>2. Shows(sig, a, h, d, sender)
    BY <1>3 DEF Shows, BranchAccepts, currentOwner
  <2> QED
    BY <2>1, <2>2 DEF Signature
<1>4. CASE <<a, h>> \in approvedHashes \/ a = sender
  <2> DEFINE sig == [v |-> "approved", by |-> a]
  <2>1. sig \in ApprovedHashSignature
    BY DEF ApprovedHashSignature
  <2>2. Shows(sig, a, h, d, sender)
    BY <1>4 DEF Shows, BranchAccepts, currentOwner
  <2> QED
    BY <2>1, <2>2 DEF Signature
<1> QED
  BY <1>1, <1>2, <1>3, <1>4 DEF Confirms

\* The order that GS026 demands keeps no quorum out: whenever enough owners
\* confirm a hash, in whatever ways, some packing of one signature of each
\* is accepted.
THEOREM Presentable == Spec => []QuorumPresentable
<1>1. IInv => QuorumPresentable
  <2> SUFFICES ASSUME IInv, NEW h \in Hash, NEW d \in Data, NEW sender \in Account,
                      threshold > 0, Cardinality(Confirmers(h, d, sender)) >= threshold
               PROVE  \E sigs \in [1..threshold -> Signature] : Accepts(h, d, sigs, sender)
    BY DEF QuorumPresentable
  <2> DEFINE C == Confirmers(h, d, sender)
  <2>1. threshold \in Nat /\ owners \subseteq Account /\ Account \subseteq Nat
    BY SignatureAssumption DEF IInv, TypeOK
  <2>2. C \subseteq owners /\ \A a \in C : a \in Account /\ Confirms(a, h, d, sender)
    BY <2>1 DEF Confirmers
  <2>3. C \in SUBSET Nat /\ IsFiniteSet(C)
    BY <2>1, <2>2, SignatureAssumption, FS_Subset
  <2> HIDE DEF C
  <2>4. PICK f : Lists(f, threshold, C)
    <3>1. Cardinality(C) >= threshold
      BY DEF C
    <3> QED
      BY <2>1, <2>3, <3>1, SortedEnumeration
  <2>5. \A k \in 1..threshold : f[k] \in C
    BY <2>4 DEF Lists
  <2> DEFINE sigs == [k \in 1..threshold |->
                        CHOOSE sig \in Signature : Shows(sig, f[k], h, d, sender)]
  <2>6. \A k \in 1..threshold : sigs[k] \in Signature /\ Shows(sigs[k], f[k], h, d, sender)
    <3> SUFFICES ASSUME NEW k \in 1..threshold
                 PROVE  sigs[k] \in Signature /\ Shows(sigs[k], f[k], h, d, sender)
      OBVIOUS
    <3>1. \E sig \in Signature : Shows(sig, f[k], h, d, sender)
      BY <2>2, <2>5, ConfirmationShown
    <3> QED
      BY <3>1
  <2>7. sigs \in [1..threshold -> Signature] /\ Len(sigs) = threshold
    BY <2>1, <2>6
  <2> HIDE DEF sigs
  <2>8. Accepts(h, d, sigs, sender)
    <3>1. threshold \in 1..Len(sigs)
      BY <2>1, <2>7
    <3>2. ASSUME NEW k \in 1..threshold
          PROVE  /\ BranchAccepts(sigs[k], h, d, sender)
                 /\ currentOwner(sigs[k], h) \in owners
                 /\ \A j \in 1..(k - 1) : currentOwner(sigs[j], h) < currentOwner(sigs[k], h)
      <4>1. BranchAccepts(sigs[k], h, d, sender) /\ currentOwner(sigs[k], h) = f[k]
        BY <2>6 DEF Shows
      <4>2. f[k] \in owners
        BY <2>2, <2>5
      <4>3. ASSUME NEW j \in 1..(k - 1)
            PROVE  currentOwner(sigs[j], h) < currentOwner(sigs[k], h)
        <5>1. j \in 1..threshold /\ j < k
          BY <2>1
        <5>2. currentOwner(sigs[j], h) = f[j]
          BY <2>6, <5>1 DEF Shows
        <5>3. f[j] < f[k]
          BY <2>4, <5>1 DEF Lists
        <5> QED
          BY <4>1, <5>2, <5>3
      <4> QED
        BY <4>1, <4>2, <4>3
    <3> QED
      BY <3>1, <3>2 DEF Accepts
  <2> QED
    BY <2>7, <2>8
<1> QED
  BY <1>1, InitIInv, NextIInv, PTL DEF Spec
-----------------------------------------------------------------------------
(* The other end: CheckIssuer packs signatures for the loop. *)

\* A list without repetition can be sorted, so the CHOOSE of addressSorter
\* names an arrangement of it in ascending order.
LEMMA SorterSorts ==
    ASSUME NEW n \in Nat, NEW l \in [1..n -> Nat], Sortable(l)
    PROVE  /\ addressSorter(l) \in [1..n -> {l[k] : k \in 1..n}]
           /\ \A j, k \in 1..n : j < k => addressSorter(l)[j] < addressSorter(l)[k]
<1> DEFINE S == {l[k] : k \in 1..n}
<1>1. S \in SUBSET Nat /\ \A k \in 1..n : l[k] \in S
  OBVIOUS
<1>2. \A x \in S : \E k \in 1..n : l[k] = x
  OBVIOUS
<1> HIDE DEF S
<1>3. l \in Bijection(1..n, S)
  <2>1. l \in [1..n -> S]
    BY <1>1
  <2>2. \A j, k \in 1..n : l[j] = l[k] => j = k
    BY DEF Sortable
  <2> QED
    BY <1>2, <2>1, <2>2, Fun_IsBij
<1>4. IsFiniteSet(S) /\ Cardinality(S) = n
  <2>1. IsFiniteSet(1..n) /\ Cardinality(1..n) = n
    BY FS_Interval
  <2>2. ExistsBijection(1..n, S)
    BY <1>3, Fun_ExistsBij
  <2> QED
    BY <2>1, <2>2, FS_Bijection
<1>5. PICK f : Lists(f, n, S)
  BY <1>1, <1>4, SortedEnumeration
<1>6. f \in Injection(1..n, S)
  <2>1. f \in [1..n -> S]
    BY <1>5 DEF Lists
  <2>2. ASSUME NEW j \in 1..n, NEW k \in 1..n, f[j] = f[k]
        PROVE  j = k
    <3>1. f[j] \in Nat /\ f[k] \in Nat
      BY <1>1, <2>1
    <3>2. ~(j < k) /\ ~(k < j)
      BY <1>5, <2>2, <3>1 DEF Lists
    <3> QED
      BY <3>2
  <2> QED
    BY <2>1, <2>2, Fun_IsInj
<1>7. f \in Surjection(1..n, S)
  <2>1. IsFiniteSet(1..n) /\ Cardinality(1..n) = n
    BY FS_Interval
  <2> QED
    BY <1>4, <1>6, <2>1, FS_Injection
<1>8. \A x \in S : \E j \in 1..n : f[j] = x
  BY <1>7 DEF Surjection
<1> DEFINE Sorted(s) == s \in Arrangements(l) /\ \A j, k \in DOMAIN s : j < k => s[j] < s[k]
<1>9. DOMAIN l = 1..n
  OBVIOUS
<1>10. Arrangements(l) = {s \in [1..n -> S] : \A k \in 1..n : \E j \in 1..n : s[j] = l[k]}
  BY <1>9 DEF Arrangements, S
<1>11. f \in Arrangements(l)
  BY <1>1, <1>5, <1>8, <1>10 DEF Lists
<1>12. \E s \in Arrangements(l) : \A j, k \in DOMAIN s : j < k => s[j] < s[k]
  BY <1>5, <1>11 DEF Lists
<1>13. /\ addressSorter(l) \in Arrangements(l)
       /\ \A j, k \in DOMAIN addressSorter(l) : j < k =>
             addressSorter(l)[j] < addressSorter(l)[k]
  BY <1>12 DEF addressSorter
<1>14. addressSorter(l) \in [1..n -> S]
  BY <1>10, <1>13
<1> QED
  BY <1>13, <1>14 DEF S

\* What the hashed text is written with: a word or a digit at a time.
Letter == {p.head : p \in Params} \cup {p.tail : p \in Params} \cup Nat

IssuerNonce == Seq(Letter)

PackedSignature ==
    [v : {"ethSign"}, over : {"prefixed"} \X ({"executor"} \X Params \X IssuerNonce), by : Nat]

IssuerCheck ==
    [params : Params, signers : SignerList, entropy : Nat,
     state : {"awaiting", "nonce", "issued", "failed"}, nonce : IssuerNonce, time : Nat,
     signatures : Seq(PackedSignature), executed : BOOLEAN]

\* What the stages leave: a nonce from the parameters and the millisecond,
\* then the signatures of the sorted list over the hash with this nonce.
Made(c) ==
    /\ c.state # "awaiting" =>
          \E e \in Nat : c.nonce = checkNonce(c.params, e, c.time)
    /\ c.state = "issued" =>
          /\ Sortable(c.signers)
          /\ c.signatures = signMsgHash(executorMsgHash(c.params, c.nonce),
                                               addressSorter(c.signers))

\* The continuation of a check runs once, before its nonce is used: a second
\* one would change the nonce under its signatures.
IssuerInv ==
    /\ clock \in Nat
    /\ checks \in Seq(IssuerCheck)
    /\ microtasks \in Seq(Nat)
    /\ \A k \in DOMAIN microtasks :
          microtasks[k] \in DOMAIN checks /\ checks[microtasks[k]].state = "awaiting"
    /\ \A j, k \in DOMAIN microtasks : microtasks[j] = microtasks[k] => j = k
    /\ \A k \in DOMAIN checks : Made(checks[k])

\* Two ways to cut a sequence at the same place are one.
LEMMA SameCut ==
    ASSUME NEW S, NEW s \in Seq(S), NEW t \in Seq(S), NEW u \in Seq(S), NEW v \in Seq(S),
           s \o t = u \o v, Len(s) = Len(u)
    PROVE  s = u /\ t = v
<1> DEFINE w == s \o t
<1>1. /\ Len(w) = Len(s) + Len(t)
      /\ \A n \in 1..(Len(s) + Len(t)) : w[n] = IF n <= Len(s) THEN s[n] ELSE t[n - Len(s)]
  BY ConcatProperties
<1>2. /\ Len(w) = Len(u) + Len(v)
      /\ \A n \in 1..(Len(u) + Len(v)) : w[n] = IF n <= Len(u) THEN u[n] ELSE v[n - Len(u)]
  BY ConcatProperties
<1> HIDE DEF w
<1>3. Len(s) \in Nat /\ Len(t) \in Nat /\ Len(t) = Len(v) /\ Len(s) = Len(u)
  <2>1. Len(s) \in Nat /\ Len(t) \in Nat /\ Len(v) \in Nat
    BY LenProperties
  <2> QED
    BY <1>1, <1>2, <2>1
<1>4. \A n \in 1..Len(s) : s[n] = u[n]
  BY <1>1, <1>2, <1>3
<1>5. \A n \in 1..Len(t) : t[n] = v[n]
  <2> SUFFICES ASSUME NEW n \in 1..Len(t)
               PROVE  t[n] = v[n]
    OBVIOUS
  <2>1. /\ n + Len(s) \in 1..(Len(s) + Len(t)) /\ ~(n + Len(s) <= Len(s))
        /\ (n + Len(s)) - Len(s) = n
    BY <1>3
  <2>2. w[n + Len(s)] = t[n]
    BY <1>1, <2>1
  <2>3. w[n + Len(s)] = v[n]
    BY <1>2, <1>3, <2>1
  <2> QED
    BY <2>2, <2>3
<1>6. s = u
  BY <1>3, <1>4, SeqEqual
<1>7. t = v
  BY <1>3, <1>5, SeqEqual
<1> QED
  BY <1>6, <1>7

FiveWords(m) ==
    /\ m[1] \in Seq(Letter) /\ m[2] \in Seq(Letter) /\ m[3] \in Seq(Letter)
    /\ m[4] \in Seq(Letter) /\ m[5] \in Seq(Letter)

SameWidths(m, n) == \A k \in 1..5 : Len(m[k]) = Len(n[k])

SameWords(m, n) == m[1] = n[1] /\ m[2] = n[2] /\ m[3] = n[3] /\ m[4] = n[4] /\ m[5] = n[5]

\* Where the widths are known the digits tell the numbers.
LEMMA SameDigits ==
    ASSUME NEW m, NEW n, FiveWords(m), FiveWords(n), SameWidths(m, n), joined(m) = joined(n)
    PROVE  SameWords(m, n)
<1> DEFINE a == m[1]
           b == m[2]
           c == m[3]
           d == m[4]
           e == m[5]
           f == n[1]
           g == n[2]
           h == n[3]
           j == n[4]
           k == n[5]
<1>0. /\ a \in Seq(Letter) /\ b \in Seq(Letter) /\ c \in Seq(Letter) /\ d \in Seq(Letter) /\ e \in Seq(Letter)
      /\ f \in Seq(Letter) /\ g \in Seq(Letter) /\ h \in Seq(Letter) /\ j \in Seq(Letter) /\ k \in Seq(Letter)
      /\ Len(a) = Len(f) /\ Len(b) = Len(g) /\ Len(c) = Len(h) /\ Len(d) = Len(j)
      /\ a \o b \o c \o d \o e = f \o g \o h \o j \o k
  BY DEF joined, FiveWords, SameWidths
<1> HIDE DEF a, b, c, d, e, f, g, h, j, k
<1> DEFINE Same(x, y) == x \in Seq(Letter) /\ y \in Seq(Letter) /\ Len(x) = Len(y)
<1>1. \A x, y, p, q : Same(x, y) /\ Same(p, q) => Same(x \o p, y \o q)
  <2> SUFFICES ASSUME NEW x \in Seq(Letter), NEW y \in Seq(Letter), NEW p \in Seq(Letter), NEW q \in Seq(Letter),
                      Len(x) = Len(y), Len(p) = Len(q)
               PROVE  Same(x \o p, y \o q)
    OBVIOUS
  <2>1. x \o p \in Seq(Letter) /\ Len(x \o p) = Len(x) + Len(p)
    BY ConcatProperties
  <2>2. y \o q \in Seq(Letter) /\ Len(y \o q) = Len(y) + Len(q)
    BY ConcatProperties
  <2> QED
    BY <2>1, <2>2
<1>2. Same(a, f) /\ Same(b, g) /\ Same(c, h) /\ Same(d, j)
  BY <1>0
<1>3. \A x, y : \A p, q \in Seq(Letter) : Same(x, y) /\ x \o p = y \o q => x = y /\ p = q
  BY SameCut
<1> HIDE DEF Same
<1>4. Same(a \o b, f \o g)
  BY <1>1, <1>2
<1>5. Same(a \o b \o c, f \o g \o h)
  BY <1>1, <1>2, <1>4
<1>6. Same(a \o b \o c \o d, f \o g \o h \o j)
  BY <1>1, <1>2, <1>5
<1>7. a \o b \o c \o d = f \o g \o h \o j /\ e = k
  BY <1>0, <1>3, <1>6
<1>8. a \o b \o c = f \o g \o h /\ d = j
  BY <1>0, <1>3, <1>5, <1>7
<1>9. a \o b = f \o g /\ c = h
  BY <1>0, <1>3, <1>4, <1>8
<1>10. a = f /\ b = g
  BY <1>0, <1>2, <1>3, <1>9
<1> QED
  BY <1>7, <1>8, <1>9, <1>10 DEF SameWords, a, b, c, d, e, f, g, h, j, k

LEMMA NumbersType ==
    ASSUME NEW p \in Params
    PROVE  /\ p.numbers = [k \in 1..5 |-> p.numbers[k]]
           /\ p.numbers[1] \in Seq(Letter) /\ p.numbers[2] \in Seq(Letter)
           /\ p.numbers[3] \in Seq(Letter) /\ p.numbers[4] \in Seq(Letter)
           /\ p.numbers[5] \in Seq(Letter)
<1>1. p.numbers \in [1..5 -> Seq(0..9)]
  BY IssuerAssumption DEF Numbers
<1>2. 0..9 \subseteq Letter
  BY DEF Letter
<1>3. \A k \in 1..5 : p.numbers[k] \in Seq(Letter)
  BY <1>1, <1>2, SeqMonotonic
<1>4. 1 \in 1..5 /\ 2 \in 1..5 /\ 3 \in 1..5 /\ 4 \in 1..5 /\ 5 \in 1..5
  OBVIOUS
<1>5. p.numbers = [k \in 1..5 |-> p.numbers[k]]
  BY <1>1
<1> QED
  BY <1>3, <1>4, <1>5, Zenon

LEMMA NonceType ==
    ASSUME NEW p \in Params, NEW e \in Nat, NEW t \in Nat
    PROVE  /\ joined(p.numbers) \in Seq(Letter)
           /\ <<p.head>> \in Seq(Letter) /\ <<p.tail, e, t>> \in Seq(Letter)
           /\ checkNonce(p, e, t) \in IssuerNonce
<1>1. \A s, u \in Seq(Letter) : s \o u \in Seq(Letter)
  BY ConcatProperties
<1>2. joined(p.numbers) \in Seq(Letter)
  BY <1>1, NumbersType DEF joined
<1>3. p.head \in Letter /\ p.tail \in Letter /\ e \in Letter /\ t \in Letter
  BY DEF Letter
<1>4. <<p.head>> \in Seq(Letter) /\ <<p.tail, e, t>> \in Seq(Letter)
  BY <1>3
<1> QED
  BY <1>1, <1>2, <1>4 DEF checkNonce, IssuerNonce

\* What can be read off a nonce.
LEMMA SameNonce ==
    ASSUME NEW p \in Params, NEW e \in Nat, NEW t \in Nat,
           NEW q \in Params, NEW f \in Nat, NEW u \in Nat,
           checkNonce(p, e, t) = checkNonce(q, f, u)
    PROVE  /\ t = u
           /\ p.head = q.head /\ p.tail = q.tail
           /\ \/ p.numbers = q.numbers
              \/ \E n \in 1..5 : Len(p.numbers[n]) # Len(q.numbers[n])
<1>1. PICK x \in Seq(Letter) : x = joined(p.numbers)
  BY NonceType
<1>2. PICK y \in Seq(Letter) : y = joined(q.numbers)
  BY NonceType
<1>3. PICK a \in Seq(Letter) : a = <<p.head>>
  BY NonceType
<1>4. PICK b \in Seq(Letter) : b = <<q.head>>
  BY NonceType
<1>5. PICK c \in Seq(Letter) : c = <<p.tail, e, t>>
  BY NonceType
<1>6. PICK d \in Seq(Letter) : d = <<q.tail, f, u>>
  BY NonceType
<1>7. Len(a) = 1 /\ Len(b) = 1 /\ Len(c) = 3 /\ Len(d) = 3
  BY <1>3, <1>4, <1>5, <1>6
<1>8. (a \o x) \o c = (b \o y) \o d
  BY <1>1, <1>2, <1>3, <1>4, <1>5, <1>6 DEF checkNonce
<1>9. a \o x \in Seq(Letter) /\ b \o y \in Seq(Letter)
  BY ConcatProperties
<1>10. Len(a \o x) = Len(b \o y)
  <2>1. PICK v \in Seq(Letter) : v = a \o x
    BY <1>9
  <2>2. PICK w \in Seq(Letter) : w = b \o y
    BY <1>9
  <2>3. Len(v \o c) = Len(v) + Len(c) /\ Len(w \o d) = Len(w) + Len(d)
    BY ConcatProperties
  <2>4. Len(v) \in Nat /\ Len(w) \in Nat
    BY LenProperties
  <2>5. v \o c = w \o d
    BY <1>8, <2>1, <2>2
  <2>6. Len(v) = Len(w)
    BY <1>7, <2>3, <2>4, <2>5
  <2> QED
    BY <2>1, <2>2, <2>6
<1>12. a \o x = b \o y /\ c = d
  BY <1>8, <1>9, <1>10, SameCut
<1>13. a = b /\ x = y
  BY <1>7, <1>12, SameCut
<1>14. p.head = q.head /\ p.tail = q.tail /\ t = u
  BY <1>3, <1>4, <1>5, <1>6, <1>12, <1>13
<1>15. ASSUME \A n \in 1..5 : Len(p.numbers[n]) = Len(q.numbers[n])
       PROVE  p.numbers = q.numbers
  <2>1. joined(p.numbers) = joined(q.numbers)
    BY <1>1, <1>2, <1>13
  <2>2. /\ p.numbers[1] \in Seq(Letter) /\ p.numbers[2] \in Seq(Letter)
        /\ p.numbers[3] \in Seq(Letter) /\ p.numbers[4] \in Seq(Letter)
        /\ p.numbers[5] \in Seq(Letter)
    BY NumbersType
  <2>3. /\ q.numbers[1] \in Seq(Letter) /\ q.numbers[2] \in Seq(Letter)
        /\ q.numbers[3] \in Seq(Letter) /\ q.numbers[4] \in Seq(Letter)
        /\ q.numbers[5] \in Seq(Letter)
    BY NumbersType
  <2>4. PICK m : m = p.numbers
    OBVIOUS
  <2>5. PICK n : n = q.numbers
    OBVIOUS
  <2>6. m[1] = n[1] /\ m[2] = n[2] /\ m[3] = n[3] /\ m[4] = n[4] /\ m[5] = n[5]
    <3>1. FiveWords(m) /\ FiveWords(n)
      BY <2>2, <2>3, <2>4, <2>5 DEF FiveWords
    <3>2. joined(m) = joined(n) /\ SameWidths(m, n)
      BY <1>15, <2>1, <2>4, <2>5 DEF SameWidths
    <3>3. SameWords(m, n)
      BY <3>1, <3>2, SameDigits
    <3> QED
      BY <3>3 DEF SameWords
  <2>7. \A k \in 1..5 : m[k] = n[k]
    BY <2>6
  <2>8. \A k \in 1..5 : p.numbers[k] = q.numbers[k]
    BY <2>4, <2>5, <2>7
  <2>9. p.numbers = [k \in 1..5 |-> p.numbers[k]] /\ q.numbers = [k \in 1..5 |-> q.numbers[k]]
    BY NumbersType
  <2> QED
    BY <2>8, <2>9
<1> QED
  BY <1>14, <1>15

LEMMA InitIssuer == IssuerInit => IssuerInv
  BY DEF IssuerInit, IssuerInv

LEMMA SignersType ==
    ASSUME NEW l \in SignerList
    PROVE  /\ \E n \in Nat : l \in [1..n -> Nat] /\ n >= Threshold
           /\ \A k \in DOMAIN l : l[k] \in Signer
           /\ Threshold \in Nat \ {0}
  <1>1. l \in Seq(Signer) /\ Len(l) >= Threshold /\ Signer \subseteq Nat
    BY IssuerAssumption
  <1>2. Len(l) \in Nat /\ l \in [1..Len(l) -> Signer] /\ DOMAIN l = 1..Len(l)
    BY <1>1
  <1>3. l \in [1..Len(l) -> Nat] /\ \A k \in DOMAIN l : l[k] \in Signer
    BY <1>1, <1>2
  <1>4. Threshold \in 1..Cardinality(Owners)
    BY IssuerAssumption
  <1>5. Threshold \in Nat \ {0}
    BY <1>4
  <1> QED
    BY <1>1, <1>2, <1>3, <1>5

LEMMA AskStep ==
    ASSUME IssuerInv, NEW p \in Params, NEW l \in SignerList,
           checkNonceGenerator(p, l)
    PROVE  IssuerInv'
<1> DEFINE c == [params |-> p, signers |-> l, entropy |-> 0, state |-> "awaiting", nonce |-> <<>>,
                 time |-> 0, signatures |-> <<>>, executed |-> FALSE]
           m == Len(checks) + 1
<1>1. c \in IssuerCheck /\ Made(c) /\ c.state = "awaiting"
  BY DEF IssuerCheck, IssuerNonce, Made
<1>2. checks' = Append(checks, c) /\ microtasks' = Append(microtasks, m) /\ clock' = clock
  BY DEF checkNonceGenerator
<1> HIDE DEF c
<1>3. checks' \in Seq(IssuerCheck) /\ microtasks' \in Seq(Nat) /\ clock' \in Nat
  BY <1>1, <1>2 DEF IssuerInv
<1>4. DOMAIN checks' = DOMAIN checks \cup {m} /\ checks'[m] = c /\ m \notin DOMAIN checks
      /\ \A k \in DOMAIN checks : checks'[k] = checks[k]
  BY <1>2 DEF IssuerInv
<1>5. DOMAIN microtasks' = DOMAIN microtasks \cup {Len(microtasks) + 1}
      /\ Len(microtasks) + 1 \notin DOMAIN microtasks
      /\ microtasks'[Len(microtasks) + 1] = m
      /\ \A k \in DOMAIN microtasks : microtasks'[k] = microtasks[k]
  BY <1>2 DEF IssuerInv
<1>6. \A k \in DOMAIN microtasks' :
        microtasks'[k] \in DOMAIN checks' /\ checks'[microtasks'[k]].state = "awaiting"
  BY <1>1, <1>4, <1>5 DEF IssuerInv
<1>7. \A j, k \in DOMAIN microtasks' : microtasks'[j] = microtasks'[k] => j = k
  BY <1>4, <1>5 DEF IssuerInv
<1>8. \A k \in DOMAIN checks' : Made(checks'[k])
  BY <1>1, <1>4 DEF IssuerInv
<1> QED
  BY <1>3, <1>6, <1>7, <1>8 DEF IssuerInv, Made
\* A step that changes one check only and starts no continuation.
LEMMA OneCheck ==
    ASSUME IssuerInv, NEW k \in DOMAIN checks, NEW c \in IssuerCheck, Made(c),
           checks' = [checks EXCEPT ![k] = c],
           checks[k].state = "awaiting" => c.state = "awaiting",
           UNCHANGED <<microtasks, clock>>
    PROVE  IssuerInv'
<1>1. checks' \in Seq(IssuerCheck) /\ DOMAIN checks' = DOMAIN checks
  BY DEF IssuerInv
<1>2. \A m \in DOMAIN checks : checks'[m] = IF m = k THEN c ELSE checks[m]
  BY DEF IssuerInv
<1>3. \A m \in DOMAIN microtasks' :
        microtasks'[m] \in DOMAIN checks' /\ checks'[microtasks'[m]].state = "awaiting"
  BY <1>1, <1>2 DEF IssuerInv
<1>4. \A m \in DOMAIN checks' : Made(checks'[m])
  BY <1>1, <1>2 DEF IssuerInv
<1> QED
  BY <1>1, <1>3, <1>4 DEF IssuerInv, Made

LEMMA CheckTyped == IssuerInv => \A k \in DOMAIN checks : checks[k] \in IssuerCheck /\ k \in Nat
  BY DEF IssuerInv

LEMMA BytesStep ==
    ASSUME IssuerInv, NEW k \in DOMAIN checks, RandomBytes(k)
    PROVE  IssuerInv'
<1> DEFINE c == [checks[k] EXCEPT !.entropy = k]
<1>1. checks[k] \in IssuerCheck /\ k \in Nat /\ Made(checks[k])
  BY CheckTyped DEF IssuerInv
<1>2. c \in IssuerCheck
  BY <1>1 DEF IssuerCheck
<1>3. c.state = checks[k].state /\ c.nonce = checks[k].nonce /\ c.params = checks[k].params
      /\ c.time = checks[k].time /\ c.signers = checks[k].signers
      /\ c.signatures = checks[k].signatures
  BY <1>1 DEF IssuerCheck
<1>4. checks' = [checks EXCEPT ![k] = c] /\ UNCHANGED <<microtasks, clock>>
  BY DEF RandomBytes
<1> HIDE DEF c
<1>5. Made(c)
  BY <1>1, <1>3 DEF Made
<1> QED
  BY <1>2, <1>3, <1>4, <1>5, OneCheck

LEMMA IssueStep ==
    ASSUME IssuerInv, NEW k \in DOMAIN checks, IssueCheck(k)
    PROVE  IssuerInv'
<1> DEFINE old == checks[k]
           h == executorMsgHash(old.params, old.nonce)
           sigs == signMsgHash(h, addressSorter(old.signers))
           s == IF Sortable(old.signers) THEN sigs ELSE <<>>
           st == IF Sortable(old.signers) THEN "issued" ELSE "failed"
           c == [old EXCEPT !.state = st, !.signatures = s]
<1>1. old \in IssuerCheck /\ Made(old) /\ old.state = "nonce"
  BY CheckTyped DEF IssuerInv, IssueCheck
<1>2. checks' = [checks EXCEPT ![k] = c] /\ UNCHANGED <<microtasks, clock>>
  BY DEF IssueCheck
<1>3. s \in Seq(PackedSignature)
  <2>1. CASE ~Sortable(old.signers)
    BY <2>1
  <2>2. CASE Sortable(old.signers)
    <3>1. PICK n \in Nat : old.signers \in [1..n -> Nat]
      BY <1>1, SignersType DEF IssuerCheck
    <3> DEFINE l == addressSorter(old.signers)
    <3>2. l \in [1..n -> Nat]
      <4>1. l \in [1..n -> {old.signers[m] : m \in 1..n}]
        BY <2>2, <3>1, SorterSorts
      <4>2. \A m \in 1..n : old.signers[m] \in Nat
        BY <3>1
      <4> HIDE DEF l
      <4> QED
        BY <4>1, <4>2
    <3> HIDE DEF l
    <3>3. h \in {"executor"} \X Params \X IssuerNonce
      BY <1>1 DEF IssuerCheck, executorMsgHash
    <3> HIDE DEF h, old
    <3>4. \A m \in 1..n : EthSignature(l[m], h) \in PackedSignature
      <4> SUFFICES ASSUME NEW m \in 1..n
                   PROVE  EthSignature(l[m], h) \in PackedSignature
        OBVIOUS
      <4>1. l[m] \in Nat
        BY <3>2
      <4> DEFINE b == IF adjusted(27 + Parity[l[m]]) - 4 = 27 + Parity[l[m]]
                      THEN l[m] ELSE NoAccount
      <4>2. b \in Nat
        BY <4>1 DEF NoAccount
      <4>3. EthSignature(l[m], h) = [v |-> "ethSign", over |-> <<"prefixed", h>>, by |-> b]
        BY DEF EthSignature
      <4> HIDE DEF b
      <4> QED
        BY <3>3, <4>2, <4>3 DEF PackedSignature
    <3>5. sigs = [m \in 1..n |-> EthSignature(l[m], h)]
      BY <3>2 DEF signMsgHash, l
    <3>6. sigs \in [1..n -> PackedSignature]
      BY <3>4, <3>5
    <3> QED
      BY <2>2, <3>6
  <2> QED
    BY <2>1, <2>2
<1>4. st \in {"issued", "failed"} /\ (st = "issued" => Sortable(old.signers) /\ s = sigs)
  OBVIOUS
<1> HIDE DEF s, st, sigs
<1>5. c \in IssuerCheck
  BY <1>1, <1>3, <1>4 DEF IssuerCheck
<1>6. c.state = st /\ c.nonce = old.nonce /\ c.params = old.params
      /\ c.time = old.time /\ c.signers = old.signers /\ c.signatures = s
  BY <1>1 DEF IssuerCheck
<1> HIDE DEF c, old
<1>7. Made(c)
  BY <1>1, <1>4, <1>6 DEF Made, sigs, h
<1>8. old.state # "awaiting"
  BY <1>1
<1> QED
  BY <1>2, <1>5, <1>7, <1>8, OneCheck DEF old

LEMMA ExecuteStep ==
    ASSUME IssuerInv, NEW k \in DOMAIN checks, executeCheck(k)
    PROVE  IssuerInv'
<1> DEFINE c == [checks[k] EXCEPT !.executed = TRUE]
<1>1. checks[k] \in IssuerCheck /\ k \in Nat /\ Made(checks[k])
  BY CheckTyped DEF IssuerInv
<1>2. c \in IssuerCheck
  BY <1>1 DEF IssuerCheck
<1>3. c.state = checks[k].state /\ c.nonce = checks[k].nonce /\ c.params = checks[k].params
      /\ c.time = checks[k].time /\ c.signers = checks[k].signers
      /\ c.signatures = checks[k].signatures
  BY <1>1 DEF IssuerCheck
<1>4. checks' = [checks EXCEPT ![k] = c] /\ UNCHANGED <<microtasks, clock>>
  BY DEF executeCheck
<1> HIDE DEF c
<1>5. Made(c)
  BY <1>1, <1>3 DEF Made
<1> QED
  BY <1>2, <1>3, <1>4, <1>5, OneCheck

LEMMA ContinueStep ==
    ASSUME IssuerInv, Continue
    PROVE  IssuerInv'
<1> DEFINE k == Head(microtasks)
           old == checks[k]
           n == checkNonce(old.params, old.entropy, clock)
           c == [old EXCEPT !.nonce = n, !.time = clock, !.state = "nonce"]
<1>1. microtasks # <<>> /\ checks' = [checks EXCEPT ![k] = c]
      /\ microtasks' = Tail(microtasks) /\ clock' = clock
  BY DEF Continue
<1>2. 1 \in DOMAIN microtasks /\ k = microtasks[1]
  BY <1>1 DEF IssuerInv
<1>3. k \in DOMAIN checks /\ clock \in Nat
  BY <1>2 DEF IssuerInv
<1>4. old \in IssuerCheck
  BY <1>3, CheckTyped
<1>5. n \in IssuerNonce
  <2>1. old.params \in Params /\ old.entropy \in Nat
    BY <1>4 DEF IssuerCheck
  <2> HIDE DEF old
  <2> QED
    BY <1>3, <2>1, NonceType
<1>6. \E e \in Nat : n = checkNonce(old.params, e, clock)
  BY <1>4 DEF IssuerCheck
<1> HIDE DEF n, k
<1>7. c \in IssuerCheck
  BY <1>3, <1>4, <1>5 DEF IssuerCheck
<1>8. c.state = "nonce" /\ c.nonce = n /\ c.params = old.params /\ c.time = clock
  BY <1>4 DEF IssuerCheck
<1> HIDE DEF c, old
<1>9. Made(c)
  BY <1>6, <1>8 DEF Made
<1>10. checks' \in Seq(IssuerCheck) /\ DOMAIN checks' = DOMAIN checks
  BY <1>1, <1>3, <1>7 DEF IssuerInv
<1>11. \A m \in DOMAIN checks : checks'[m] = IF m = k THEN c ELSE checks[m]
  BY <1>1, <1>3 DEF IssuerInv
<1>12. microtasks' \in Seq(Nat)
       /\ \A m \in DOMAIN microtasks' :
             m + 1 \in DOMAIN microtasks /\ microtasks'[m] = microtasks[m + 1] /\ m \in Nat \ {0}
  BY <1>1 DEF IssuerInv
<1>13. \A m \in DOMAIN microtasks' :
        microtasks'[m] \in DOMAIN checks' /\ checks'[microtasks'[m]].state = "awaiting"
  <2> SUFFICES ASSUME NEW m \in DOMAIN microtasks'
               PROVE  microtasks'[m] \in DOMAIN checks' /\ checks'[microtasks'[m]].state = "awaiting"
    OBVIOUS
  <2>1. microtasks[m + 1] # k
    <3>1. m + 1 # 1 /\ m + 1 \in DOMAIN microtasks
      BY <1>12
    <3> QED
      BY <1>2, <3>1 DEF IssuerInv
  <2>2. microtasks[m + 1] \in DOMAIN checks /\ checks[microtasks[m + 1]].state = "awaiting"
    BY <1>12 DEF IssuerInv
  <2> QED
    BY <1>10, <1>11, <1>12, <2>1, <2>2
<1>14. \A j, m \in DOMAIN microtasks' : microtasks'[j] = microtasks'[m] => j = m
  <2> SUFFICES ASSUME NEW j \in DOMAIN microtasks', NEW m \in DOMAIN microtasks',
                      microtasks'[j] = microtasks'[m]
               PROVE  j = m
    OBVIOUS
  <2>1. j + 1 = m + 1
    BY <1>12 DEF IssuerInv
  <2> QED
    BY <1>12, <2>1
<1>15. \A m \in DOMAIN checks' : Made(checks'[m])
  BY <1>9, <1>10, <1>11 DEF IssuerInv
<1> QED
  BY <1>1, <1>3, <1>10, <1>12, <1>13, <1>14, <1>15 DEF IssuerInv, Made

LEMMA NextIssuer ==
    IssuerInv /\ [IssuerNext]_issuerVars => IssuerInv'
<1> SUFFICES ASSUME IssuerInv, [IssuerNext]_issuerVars
             PROVE  IssuerInv'
  OBVIOUS
<1>1. CASE \E p \in Params, l \in SignerList : checkNonceGenerator(p, l)
  BY <1>1, AskStep
<1>2. CASE \E k \in DOMAIN checks : RandomBytes(k)
  BY <1>2, BytesStep
<1>3. CASE \E k \in DOMAIN checks : IssueCheck(k)
  BY <1>3, IssueStep
<1>4. CASE \E k \in DOMAIN checks : executeCheck(k)
  BY <1>4, ExecuteStep
<1>5. CASE Continue
  BY <1>5, ContinueStep
<1>6. CASE Tick
  BY <1>6 DEF Tick, IssuerInv, Made
<1>7. CASE UNCHANGED issuerVars
  BY <1>7 DEF issuerVars, IssuerInv, Made
<1> QED
  BY <1>1, <1>2, <1>3, <1>4, <1>5, <1>6, <1>7 DEF IssuerNext

\* Checks with one nonce were made in the same millisecond, for the same
\* payee, check owner, token and receiver, and their numbers have other
\* widths or are the same: for all parameters, all numbers of checks and all
\* interleavings of their promises.
THEOREM Independence ==
    IssuerSpec => []DistinctIndependent
<1>1. IssuerInv => DistinctIndependent
  <2> SUFFICES ASSUME IssuerInv, NEW k \in Issued, NEW m \in Issued,
                      checks[k].nonce = checks[m].nonce
               PROVE  LET p == checks[k].params
                          q == checks[m].params
                      IN  /\ checks[k].time = checks[m].time
                          /\ p.head = q.head /\ p.tail = q.tail
                          /\ \/ p.numbers = q.numbers
                             \/ \E n \in 1..5 : Len(p.numbers[n]) # Len(q.numbers[n])
    BY DEF DistinctIndependent
  <2>1. \A n \in Issued : /\ checks[n].params \in Params /\ checks[n].time \in Nat
                          /\ \E e \in Nat :
                                checks[n].nonce = checkNonce(checks[n].params, e, checks[n].time)
    BY CheckTyped DEF IssuerInv, Made, Issued, IssuerCheck
  <2>2. PICK e \in Nat : checks[k].nonce = checkNonce(checks[k].params, e, checks[k].time)
    BY <2>1
  <2>3. PICK f \in Nat : checks[m].nonce = checkNonce(checks[m].params, f, checks[m].time)
    BY <2>1
  <2>4. PICK p \in Params : p = checks[k].params
    BY <2>1
  <2>5. PICK q \in Params : q = checks[m].params
    BY <2>1
  <2>6. PICK t \in Nat : t = checks[k].time
    BY <2>1
  <2>7. PICK u \in Nat : u = checks[m].time
    BY <2>1
  <2>8. checkNonce(p, e, t) = checkNonce(q, f, u)
    BY <2>2, <2>3, <2>4, <2>5, <2>6, <2>7
  <2>9. /\ t = u
        /\ p.head = q.head /\ p.tail = q.tail
        /\ \/ p.numbers = q.numbers
           \/ \E n \in 1..5 : Len(p.numbers[n]) # Len(q.numbers[n])
    BY <2>8, SameNonce
  <2> QED
    BY <2>4, <2>5, <2>6, <2>7, <2>9
<1> QED
  BY <1>1, InitIssuer, NextIssuer, PTL DEF IssuerSpec

\* What the script packs, whoever it lists in whatever order, is in the
\* form and the order that checkNSignatures demands, for every wallet.
THEOREM Packing ==
    IssuerSpec => []IssuedAccepted
<1>1. IssuerInv => IssuedAccepted
  <2> SUFFICES ASSUME IssuerInv, NEW k \in Issued,
                      {checks[k].signers[m] : m \in DOMAIN checks[k].signers} \subseteq Owners
               PROVE  SignaturesAccepted(checks[k])
    BY DEF IssuedAccepted
  <2> DEFINE c == checks[k]
             h == executorMsgHash(c.params, c.nonce)
             l == addressSorter(c.signers)
  <2>1. c \in IssuerCheck /\ c.state = "issued" /\ Made(c)
    BY CheckTyped DEF IssuerInv, Issued
  <2>2. Sortable(c.signers) /\ c.signatures = signMsgHash(h, l)
    BY <2>1 DEF Made
  <2>3. c.signers \in SignerList
    BY <2>1 DEF IssuerCheck
  <2> HIDE DEF c
  <2>4. PICK n \in Nat : c.signers \in [1..n -> Nat] /\ n >= Threshold
    BY <2>3, SignersType
  <2>5. /\ l \in [1..n -> {c.signers[m] : m \in 1..n}]
        /\ \A j, m \in 1..n : j < m => l[j] < l[m]
    BY <2>2, <2>4, SorterSorts
  <2>6. \A m \in 1..n : l[m] \in Owners /\ l[m] \in Signer
    <3>1. \A m \in 1..n : c.signers[m] \in Owners /\ c.signers[m] \in Signer
      BY <2>3, <2>4, SignersType DEF c
    <3>2. \A x \in {c.signers[m] : m \in 1..n} : x \in Owners /\ x \in Signer
      BY <3>1
    <3> DEFINE S == {c.signers[m] : m \in 1..n}
    <3>3. \A m \in 1..n : l[m] \in S
      <4> HIDE DEF l, S
      <4> QED
        BY <2>5 DEF S
    <3> HIDE DEF l, S
    <3> QED
      BY <3>2, <3>3 DEF S
  <2>7. DOMAIN l = 1..n
    BY <2>5
  <2> HIDE DEF l, h
  <2>8. \A m \in 1..n : /\ c.signatures[m].v = "ethSign"
                        /\ c.signatures[m].over = <<"prefixed", h>>
                        /\ c.signatures[m].by = l[m]
    <3> SUFFICES ASSUME NEW m \in 1..n
                 PROVE  /\ c.signatures[m].v = "ethSign"
                        /\ c.signatures[m].over = <<"prefixed", h>>
                        /\ c.signatures[m].by = l[m]
      OBVIOUS
    <3>1. Parity[l[m]] \in {0, 1}
      BY <2>6, IssuerAssumption
    <3>2. adjusted(27 + Parity[l[m]]) - 4 = 27 + Parity[l[m]]
      BY <3>1 DEF adjusted
    <3>3. c.signatures[m] = EthSignature(l[m], h)
      BY <2>2, <2>7 DEF signMsgHash
    <3>4. c.signatures[m] = [v |-> "ethSign", over |-> <<"prefixed", h>>, by |-> l[m]]
      BY <3>2, <3>3 DEF EthSignature
    <3> QED
      BY <3>4
  <2>9. c.signatures = [m \in 1..n |-> c.signatures[m]] /\ Len(c.signatures) = n
    BY <2>2, <2>4, <2>7 DEF signMsgHash
  <2>10. Threshold \in 1..n
    BY <2>3, <2>4, SignersType
  <2>11. ASSUME NEW m \in 1..Threshold
         PROVE  /\ Wallet!BranchAccepts(c.signatures[m], h, h, NoAccount)
                /\ Wallet!currentOwner(c.signatures[m], h) = l[m]
                /\ m \in 1..n
    <3>1. m \in 1..n
      BY <2>10
    <3>2. c.signatures[m].v = "ethSign" /\ c.signatures[m].over = <<"prefixed", h>>
          /\ c.signatures[m].by = l[m]
      BY <2>8, <3>1
    <3> QED
      BY <3>1, <3>2 DEF Wallet!BranchAccepts, Wallet!currentOwner,
                        Wallet!ecrecover
  <2>12. \A m \in 1..Threshold : \A j \in 1..(m - 1) : j \in 1..Threshold /\ j < m
    BY <2>10
  <2>13. Wallet!Accepts(h, h, c.signatures, NoAccount)
    <3>1. Threshold \in 1..Len(c.signatures)
      BY <2>9, <2>10
    <3>2. ASSUME NEW m \in 1..Threshold
          PROVE  /\ Wallet!BranchAccepts(c.signatures[m], h, h, NoAccount)
                 /\ Wallet!currentOwner(c.signatures[m], h) \in Owners
                 /\ \A j \in 1..(m - 1) :
                       Wallet!currentOwner(c.signatures[j], h)
                         < Wallet!currentOwner(c.signatures[m], h)
      BY <2>5, <2>6, <2>11, <2>12
    <3> QED
      BY <3>1, <3>2 DEF Wallet!Accepts
  <2> QED
    BY <2>13 DEF SignaturesAccepted, h, c
<1> QED
  BY <1>1, InitIssuer, NextIssuer, PTL DEF IssuerSpec
=============================================================================
