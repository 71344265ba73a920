-------------------------- MODULE LinkedListProofs --------------------------
(***************************************************************************)
(* The list operations of OwnerManager and ModuleManager on a ring, for    *)
(* every set of members.                                                   *)
(***************************************************************************)
EXTENDS LinkedList, FunctionTheorems, FiniteSetTheorems, WellFoundedInduction, TLAPS

\* S can be the members of a list whose mapping has an entry for each
\* address of A.
Space(S, A) ==
    /\ S \cup {Zero, SENTINEL} \subseteq A
    /\ Zero # SENTINEL /\ {Zero, SENTINEL} \cap S = {}

\* What removeOwner, swapOwner and disableModule find when they check that
\* prev names o (GS205, GS103): o is a member of the ring and prev the
\* member just before it.
LEMMA RingPredecessor ==
    ASSUME NEW A, NEW S, Space(S, A), NEW links \in [A -> A], links[Zero] = Zero,
           NEW n \in Nat, NEW p \in [0..n -> S \cup {SENTINEL}],
           RingOrder(links, n, p, S),
           NEW prev \in A, NEW o \in A,
           links[prev] = o, o \notin {Zero, SENTINEL}
    PROVE  \E k \in 1..n : p[k] = o /\ p[k - 1] = prev
<1>1. PICK i \in 0..n : p[i] = prev
  BY DEF RingOrder
<1>2. i # n
  BY <1>1 DEF RingOrder
<1>3. i + 1 \in 1..n /\ p[i + 1] = o /\ p[(i + 1) - 1] = prev
  BY <1>1, <1>2 DEF RingOrder
<1> QED
  BY <1>3

\* Writing the entries of addOwnerWithThreshold or enableModule puts the new
\* member first.
LEMMA RingInsert ==
    ASSUME NEW A, NEW S, Space(S, A), NEW links \in [A -> A],
           NEW n \in Nat, Ring(links, n, S),
           NEW o \in S, links[o] = Zero
    PROVE  Ring([links EXCEPT ![o] = links[SENTINEL], ![SENTINEL] = o], n + 1, S)
<1> DEFINE new == [links EXCEPT ![o] = links[SENTINEL], ![SENTINEL] = o]
<1>1. PICK p \in [0..n -> S \cup {SENTINEL}] : RingOrder(links, n, p, S)
  BY DEF Ring
<1> DEFINE q == [i \in 0..(n + 1) |->
                   IF i = 0 THEN SENTINEL ELSE IF i = 1 THEN o ELSE p[i - 1]]
<1>2. q \in [0..(n + 1) -> S \cup {SENTINEL}]
  BY <1>1
<1>3. \A i \in 0..n : p[i] # o
  BY <1>1 DEF RingOrder, Space
<1>4. RingOrder(new, n + 1, q, S)
  <2>1. q[0] = SENTINEL /\ \A i \in 1..(n + 1) : q[i] \in S
    BY <1>1 DEF RingOrder
  <2>2. \A i, j \in 0..(n + 1) : q[i] = q[j] => i = j
    BY <1>1, <1>3 DEF RingOrder, Space
  <2>3. \A i \in 0..(n + 1) :
           new[q[i]] = IF i = n + 1 THEN SENTINEL ELSE q[i + 1]
    BY <1>1, <1>3 DEF RingOrder, Space
  <2>4. \A a \in A : new[a] # Zero => \E i \in 0..(n + 1) : q[i] = a
    <3> SUFFICES ASSUME NEW a \in A, new[a] # Zero
                 PROVE  \E i \in 0..(n + 1) : q[i] = a
      OBVIOUS
    <3>1. CASE a = SENTINEL
      <4>1. 0 \in 0..(n + 1) /\ q[0] = a
        BY <3>1
      <4> QED
        BY <4>1
    <3>2. CASE a = o
      <4>1. 1 \in 0..(n + 1) /\ q[1] = a
        BY <3>2
      <4> QED
        BY <4>1
    <3>3. CASE a \notin {SENTINEL, o}
      <4>1. PICK i \in 0..n : p[i] = a
        BY <1>1, <3>3 DEF RingOrder
      <4>2. i + 1 \in 0..(n + 1) /\ q[i + 1] = a
        BY <4>1, <1>1, <3>3 DEF RingOrder
      <4> QED
        BY <4>2
    <3> QED
      BY <3>1, <3>2, <3>3
  <2> QED
    BY <2>1, <2>2, <2>3, <2>4 DEF RingOrder
<1> QED
  BY <1>2, <1>4 DEF Ring

\* Writing the entries of removeOwner or disableModule cuts out exactly the
\* k-th member.
LEMMA RingDelete ==
    ASSUME NEW A, NEW S, Space(S, A), NEW links \in [A -> A],
           NEW n \in Nat, NEW p \in [0..n -> S \cup {SENTINEL}],
           RingOrder(links, n, p, S),
           NEW k \in 1..n
    PROVE  Ring([links EXCEPT ![p[k - 1]] = links[p[k]], ![p[k]] = Zero], n - 1, S)
<1> DEFINE new == [links EXCEPT ![p[k - 1]] = links[p[k]], ![p[k]] = Zero]
<1> DEFINE q == [i \in 0..(n - 1) |-> IF i < k THEN p[i] ELSE p[i + 1]]
<1>1. q \in [0..(n - 1) -> S \cup {SENTINEL}]
  OBVIOUS
<1>2. \A i \in 0..n : p[i] \in A
  BY DEF Space
<1>3. RingOrder(new, n - 1, q, S)
  <2>1. q[0] = SENTINEL /\ \A i \in 1..(n - 1) : q[i] \in S
    BY DEF RingOrder
  <2>2. \A i, j \in 0..(n - 1) : q[i] = q[j] => i = j
    BY DEF RingOrder
  <2>3. \A i \in 0..(n - 1) :
           new[q[i]] = IF i = n - 1 THEN SENTINEL ELSE q[i + 1]
    <3> SUFFICES ASSUME NEW i \in 0..(n - 1)
                 PROVE  new[q[i]] = IF i = n - 1 THEN SENTINEL ELSE q[i + 1]
      OBVIOUS
    <3>1. CASE i < k - 1
      BY <3>1, <1>2 DEF RingOrder
    <3>2. CASE i = k - 1
      BY <3>2, <1>2 DEF RingOrder
    <3>3. CASE i >= k
      BY <3>3, <1>2 DEF RingOrder
    <3> QED
      BY <3>1, <3>2, <3>3
  <2>4. \A a \in A : new[a] # Zero => \E i \in 0..(n - 1) : q[i] = a
    <3> SUFFICES ASSUME NEW a \in A, new[a] # Zero
                 PROVE  \E i \in 0..(n - 1) : q[i] = a
      OBVIOUS
    <3>1. PICK i \in 0..n : p[i] = a
      <4>1. CASE a = p[k - 1]
        BY <4>1
      <4>2. CASE a # p[k - 1]
        BY <4>2, <1>2 DEF RingOrder
      <4> QED
        BY <4>1, <4>2
    <3>2. i # k
      BY <3>1, <1>2 DEF RingOrder
    <3>3. CASE i < k
      BY <3>1, <3>3
    <3>4. CASE i > k
      <4>1. i - 1 \in 0..(n - 1) /\ q[i - 1] = a
        BY <3>1, <3>4
      <4> QED
        BY <4>1
    <3> QED
      BY <3>2, <3>3, <3>4
  <2> QED
    BY <2>1, <2>2, <2>3, <2>4 DEF RingOrder
<1> QED
  BY <1>1, <1>3 DEF Ring

\* Writing the entries of swapOwner puts the new owner in the k-th place.
LEMMA RingReplace ==
    ASSUME NEW A, NEW S, Space(S, A), NEW links \in [A -> A],
           NEW n \in Nat, NEW p \in [0..n -> S \cup {SENTINEL}],
           RingOrder(links, n, p, S),
           NEW k \in 1..n,
           NEW o \in S, links[o] = Zero
    PROVE  Ring([links EXCEPT ![o] = links[p[k]], ![p[k - 1]] = o, ![p[k]] = Zero], n, S)
<1> DEFINE new == [links EXCEPT ![o] = links[p[k]], ![p[k - 1]] = o, ![p[k]] = Zero]
<1> DEFINE q == [i \in 0..n |-> IF i = k THEN o ELSE p[i]]
<1>1. q \in [0..n -> S \cup {SENTINEL}]
  OBVIOUS
<1>2. \A i \in 0..n : p[i] \in A /\ p[i] # o
  BY DEF RingOrder, Space
<1>3. o \in A
  BY DEF Space
<1>4. RingOrder(new, n, q, S)
  <2>1. q[0] = SENTINEL /\ \A i \in 1..n : q[i] \in S
    BY DEF RingOrder
  <2>2. \A i, j \in 0..n : q[i] = q[j] => i = j
    BY <1>2 DEF RingOrder
  <2>3. \A i \in 0..n : new[q[i]] = IF i = n THEN SENTINEL ELSE q[i + 1]
    <3> SUFFICES ASSUME NEW i \in 0..n
                 PROVE  new[q[i]] = IF i = n THEN SENTINEL ELSE q[i + 1]
      OBVIOUS
    <3>1. CASE i = k - 1
      BY <3>1, <1>2, <1>3 DEF RingOrder
    <3>2. CASE i = k
      BY <3>2, <1>2, <1>3 DEF RingOrder
    <3>3. CASE i \notin {k - 1, k}
      BY <3>3, <1>2, <1>3 DEF RingOrder
    <3> QED
      BY <3>1, <3>2, <3>3
  <2>4. \A a \in A : new[a] # Zero => \E i \in 0..n : q[i] = a
    <3> SUFFICES ASSUME NEW a \in A, new[a] # Zero
                 PROVE  \E i \in 0..n : q[i] = a
      OBVIOUS
    <3>1. CASE a = o
      BY <3>1
    <3>2. CASE a # o
      <4>1. PICK i \in 0..n : p[i] = a
        BY <3>2, <1>2, <1>3 DEF RingOrder
      <4>2. i # k
        BY <4>1, <1>2 DEF RingOrder
      <4> QED
        BY <4>1, <4>2
    <3> QED
      BY <3>1, <3>2
  <2> QED
    BY <2>1, <2>2, <2>3, <2>4 DEF RingOrder
<1> QED
  BY <1>1, <1>4 DEF Ring

\* The addresses that isOwner or isModuleEnabled accepts, for any list.
Members(links) == {a \in DOMAIN links : a # SENTINEL /\ links[a] # Zero}

\* A ring of n has n members, all of them ordinary addresses.
LEMMA RingMembers ==
    ASSUME NEW A, NEW S, Space(S, A), NEW links \in [A -> A], NEW n \in Nat, Ring(links, n, S)
    PROVE  /\ Members(links) \subseteq S
           /\ IsFiniteSet(Members(links))
           /\ Cardinality(Members(links)) = n
<1>1. PICK p \in [0..n -> S \cup {SENTINEL}] : RingOrder(links, n, p, S)
  BY DEF Ring
<1>2. \A i \in 1..n : p[i] \in Members(links)
  BY <1>1 DEF RingOrder, Members, Space
<1>3. \A a \in Members(links) : \E i \in 1..n : p[i] = a
  BY <1>1 DEF RingOrder, Members
<1>4. Members(links) \subseteq S
  BY <1>1, <1>3 DEF RingOrder
<1> DEFINE f == [i \in 1..n |-> p[i]]
<1>5. f \in [1..n -> Members(links)]
  BY <1>2
<1>6. f \in Bijection(1..n, Members(links))
  <2>1. \A i, j \in 1..n : f[i] = f[j] => i = j
    BY <1>1 DEF RingOrder
  <2>2. \A a \in Members(links) : \E i \in 1..n : f[i] = a
    BY <1>3
  <2> HIDE DEF f
  <2> QED
    BY <1>5, <2>1, <2>2, Fun_IsBij
<1>7. ExistsBijection(1..n, Members(links))
  BY <1>6, Fun_ExistsBij
<1>8. IsFiniteSet(1..n) /\ Cardinality(1..n) = n
  BY FS_Interval
<1> QED
  BY <1>4, <1>7, <1>8, FS_Bijection

\* What the k-th place of a ring says about the member there.
LEMMA RingPlace ==
    ASSUME NEW A, NEW S, Space(S, A), NEW links \in [A -> A], NEW n \in Nat,
           NEW p \in [0..n -> S \cup {SENTINEL}], RingOrder(links, n, p, S),
           NEW k \in 1..n
    PROVE  /\ p[k] \in S /\ links[p[k]] # Zero
           /\ p[k - 1] # p[k]
<1>1. p[k] \in S /\ p[k - 1] # p[k]
  BY DEF RingOrder
<1>2. links[p[k]] \in S \cup {SENTINEL}
  <2>1. CASE k = n
    BY <2>1 DEF RingOrder
  <2>2. CASE k # n
    BY <2>2 DEF RingOrder
  <2> QED
    BY <2>1, <2>2
<1> QED
  BY <1>1, <1>2 DEF Space

\* The sentinel of a ring has an entry.
LEMMA RingHead ==
    ASSUME NEW A, NEW S, Space(S, A), NEW links \in [A -> A], NEW n \in Nat, Ring(links, n, S)
    PROVE  links[SENTINEL] # Zero
<1>1. PICK p \in [0..n -> S \cup {SENTINEL}] : RingOrder(links, n, p, S)
  BY DEF Ring
<1>2. CASE n = 0
  BY <1>1, <1>2 DEF RingOrder, Space
<1>3. CASE n # 0
  BY <1>1, <1>3 DEF RingOrder, Space
<1> QED
  BY <1>2, <1>3

-----------------------------------------------------------------------------
(* Walks along the links. *)

\* A nonempty set of naturals has a least element.
LEMMA LeastNatural ==
    ASSUME NEW T \in SUBSET Nat, T # {}
    PROVE  \E x \in T : \A y \in T : x <= y
<1>1. IsWellFoundedOn(OpToRel(<, Nat), Nat)
  BY NatLessThanWellFounded
<1>2. PICK x \in T : \A y \in T : ~(<<y, x>> \in OpToRel(<, Nat))
  BY <1>1, WFMin
<1>3. \A y \in T : ~(y < x)
  BY <1>2 DEF OpToRel
<1> QED
  BY <1>3

\* Induction over the naturals, for a set in place of a predicate.
LEMMA InductionOnNat ==
    ASSUME NEW S, 0 \in S, \A n \in Nat : n \in S => n + 1 \in S
    PROVE  \A n \in Nat : n \in S
<1> DEFINE T == Nat \ S
<1>1. CASE T # {}
  <2>1. PICK x \in T : \A y \in T : x <= y
    BY <1>1, LeastNatural
  <2>2. x - 1 \in Nat /\ x - 1 \notin T
    BY <2>1
  <2> QED
    BY <2>1, <2>2
<1> QED
  BY <1>1

\* Following the links from s is well defined: the recursive equation of the
\* loops of getOwners and getModulesPaginated has a solution.
LEMMA WalkExists ==
    ASSUME NEW A, NEW links \in [A -> A], NEW s \in A
    PROVE  \E g : g = [k \in Nat |-> IF k = 0 THEN links[s] ELSE links[g[k - 1]]]
<1> DEFINE Follows(h, n) == h[0] = links[s] /\ \A k \in 1..n : h[k] = links[h[k - 1]]
           H(n) == CHOOSE h \in [0..n -> A] : Follows(h, n)
           Finite == {n \in Nat : \E h \in [0..n -> A] : Follows(h, n)}
<1>1. \A n \in Nat : n \in Finite
  <2>1. 0 \in Finite
    <3> DEFINE h == [i \in 0..0 |-> links[s]]
    <3>1. h \in [0..0 -> A] /\ Follows(h, 0)
      OBVIOUS
    <3> QED
      BY <3>1
  <2>2. ASSUME NEW n \in Nat, n \in Finite
        PROVE  n + 1 \in Finite
    <3>1. PICK h \in [0..n -> A] : Follows(h, n)
      BY <2>2
    <3> DEFINE e == [i \in 0..(n + 1) |-> IF i = n + 1 THEN links[h[n]] ELSE h[i]]
    <3>2. e \in [0..(n + 1) -> A]
      BY <3>1
    <3>3. Follows(e, n + 1)
      BY <3>1
    <3> HIDE DEF e, Follows
    <3>4. \E x \in [0..(n + 1) -> A] : Follows(x, n + 1)
      BY <3>2, <3>3
    <3> QED
      BY <3>4
  <2> HIDE DEF Finite
  <2> QED
    BY <2>1, <2>2, InductionOnNat
<1>2. \A n \in Nat : H(n) \in [0..n -> A] /\ Follows(H(n), n)
  BY <1>1
<1>3. ASSUME NEW n \in Nat
      PROVE  H(n + 1)[n] = H(n)[n]
  <2> DEFINE Agree == {k \in Nat : k <= n => H(n + 1)[k] = H(n)[k]}
  <2> HIDE DEF H
  <2>1. H(n + 1) \in [0..(n + 1) -> A] /\ Follows(H(n + 1), n + 1)
    BY <1>2
  <2>2. H(n) \in [0..n -> A] /\ Follows(H(n), n)
    BY <1>2
  <2>3. 0 \in Agree
    BY <2>1, <2>2
  <2>4. ASSUME NEW k \in Nat, k \in Agree
        PROVE  k + 1 \in Agree
    <3>1. CASE k + 1 <= n
      <4>1. k + 1 \in 1..n /\ k + 1 \in 1..(n + 1) /\ (k + 1) - 1 = k /\ k <= n
        BY <3>1
      <4>2. H(n + 1)[k + 1] = links[H(n + 1)[k]] /\ H(n)[k + 1] = links[H(n)[k]]
        BY <2>1, <2>2, <4>1
      <4> QED
        BY <2>4, <4>1, <4>2
    <3> QED
      BY <3>1
  <2>5. n \in Agree
    <3> HIDE DEF Agree
    <3> QED
      BY <2>3, <2>4, InductionOnNat
  <2> QED
    BY <2>5
<1> DEFINE g == [n \in Nat |-> H(n)[n]]
<1> HIDE DEF H
<1>4. \A k \in Nat : g[k] = IF k = 0 THEN links[s] ELSE links[g[k - 1]]
  <2> SUFFICES ASSUME NEW k \in Nat
               PROVE  g[k] = IF k = 0 THEN links[s] ELSE links[g[k - 1]]
    OBVIOUS
  <2>1. CASE k = 0
    BY <2>1, <1>2
  <2>2. CASE k # 0
    <3>1. k - 1 \in Nat /\ (k - 1) + 1 = k /\ k \in 1..k
      BY <2>2
    <3>2. H(k)[k] = links[H(k)[k - 1]]
      BY <1>2, <3>1
    <3>3. H(k)[k - 1] = H(k - 1)[k - 1]
      BY <1>3, <3>1
    <3> QED
      BY <2>2, <3>1, <3>2, <3>3
  <2> QED
    BY <2>1, <2>2
<1>5. g = [k \in Nat |-> IF k = 0 THEN links[s] ELSE links[g[k - 1]]]
  BY <1>4
<1> QED
  <2> HIDE DEF g
  <2> QED
    BY <1>5

\* w[k] is where k + 1 steps along the links lead from s.
Walks(w, links, s) == w[0] = links[s] /\ \A k \in Nat : w[k + 1] = links[w[k]]

\* Every step of the walk stays among the addresses.
LEMMA WalkType ==
    ASSUME NEW A, NEW links \in [A -> A], NEW s \in A, NEW w,
           w = [k \in Nat |-> IF k = 0 THEN links[s] ELSE links[w[k - 1]]]
    PROVE  w \in [Nat -> A] /\ Walks(w, links, s)
<1>1. /\ w[0] = links[s]
      /\ \A k \in Nat : w[k + 1] = links[w[k]]
  <2>1. \A k \in Nat : w[k] = IF k = 0 THEN links[s] ELSE links[w[k - 1]]
    OBVIOUS
  <2>2. \A k \in Nat : k + 1 \in Nat /\ k + 1 # 0 /\ (k + 1) - 1 = k
    OBVIOUS
  <2> QED
    BY <2>1, <2>2
<1> DEFINE S == {k \in Nat : w[k] \in A}
<1>2. 0 \in S
  BY <1>1
<1>3. \A k \in Nat : k \in S => k + 1 \in S
  BY <1>1
<1>4. \A k \in Nat : k \in S
  <2> HIDE DEF S
  <2> QED
    BY <1>2, <1>3, InductionOnNat
<1> QED
  BY <1>1, <1>4 DEF Walks

\* w lists what follows the b-th place of the order p of n members.
Passes(w, p, n, b) ==
    /\ \A k \in Nat : k < n - b => w[k] = p[b + k + 1]
    /\ w[n - b] = SENTINEL

\* From the b-th place of a ring the walk passes the members behind it in
\* their order and then the sentinel.
LEMMA RingWalk ==
    ASSUME NEW A, NEW S, NEW links \in [A -> A],
           NEW n \in Nat, NEW p \in [0..n -> S \cup {SENTINEL}],
           RingOrder(links, n, p, S),
           NEW b \in 0..n, NEW w, Walks(w, links, p[b])
    PROVE  Passes(w, p, n, b)
<1> DEFINE Reach == {k \in Nat : k <= n - b =>
                        w[k] = IF k = n - b THEN SENTINEL ELSE p[b + k + 1]}
<1>1. 0 \in Reach
  BY DEF RingOrder, Walks
<1>2. ASSUME NEW k \in Nat, k \in Reach
      PROVE  k + 1 \in Reach
  <2>1. CASE k + 1 <= n - b
    <3>1. b + k + 1 \in 0..n /\ b + (k + 1) + 1 = (b + k + 1) + 1
      BY <2>1
    <3>2. w[k] = p[b + k + 1]
      BY <1>2, <2>1
    <3>3. w[k + 1] = links[p[b + k + 1]]
      BY <3>2 DEF Walks
    <3>4. links[p[b + k + 1]] = IF b + k + 1 = n THEN SENTINEL ELSE p[(b + k + 1) + 1]
      BY <3>1 DEF RingOrder
    <3> QED
      BY <3>1, <3>3, <3>4
  <2>2. CASE ~(k + 1 <= n - b)
    BY <2>2
  <2> QED
    BY <2>1, <2>2
<1>3. \A k \in Nat : k \in Reach
  <2> HIDE DEF Reach
  <2> QED
    BY <1>1, <1>2, InductionOnNat
<1>4. n - b \in Nat
  OBVIOUS
<1> QED
  BY <1>3, <1>4 DEF Passes
=============================================================================
