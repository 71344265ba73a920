-------------------------- MODULE SafeNetworkProofs --------------------------
(***************************************************************************)
(* Nothing but what the owners asked for remains in the storage of Safes,  *)
(* nothing of it is missing or done twice, and no Safe consents without    *)
(* its own owners, for every set of Safes, keys and calls, every nesting   *)
(* of batches and simulations and every depth of calls.                    *)
(***************************************************************************)
EXTENDS SafeNetwork, FiniteSetTheorems, SequenceTheorems, WellFoundedInduction, TLAPS

-----------------------------------------------------------------------------
\* Induction over the naturals, for a set in place of a predicate.
LEMMA NaturalInduction ==
    ASSUME NEW S, 0 \in S, \A n \in Nat : n \in S => n + 1 \in S
    PROVE  \A n \in Nat : n \in S
<1> DEFINE T == Nat \ S
<1>1. CASE T # {}
  <2>1. IsWellFoundedOn(OpToRel(<, Nat), Nat)
    BY NatLessThanWellFounded
  <2>2. PICK x \in T : \A y \in T : ~(<<y, x>> \in OpToRel(<, Nat))
    BY <1>1, <2>1, WFMin
  <2>3. \A y \in T : ~(y < x)
    BY <2>2 DEF OpToRel
  <2>4. x - 1 \in Nat /\ x - 1 \notin T
    BY <2>3
  <2>5. (x - 1) + 1 = x /\ x \notin S
    BY <2>3
  <2> QED
    BY <2>4, <2>5
<1> QED
  BY <1>1

(* Sums *)

\* The element that the sum over s takes next.
NextOf(s) == CHOOSE x \in s : TRUE

\* The sum over s, where g is the sum over smaller sets.
OneMore(f, g, s) == IF s = {} THEN 0 ELSE f[NextOf(s)] + g[s \ {NextOf(s)}]

Summing(f, S, g) == g = [s \in SUBSET S |-> OneMore(f, g, s)]

LEMMA LessOne ==
    ASSUME NEW s, IsFiniteSet(s), NEW x \in s
    PROVE  IsFiniteSet(s \ {x}) /\ Cardinality(s \ {x}) = Cardinality(s) - 1 /\ Cardinality(s) \in Nat \ {0}
  BY FS_RemoveElement, FS_CardinalityType, FS_EmptySet

LEMMA NextIn ==
    ASSUME NEW s, s # {}
    PROVE  NextOf(s) \in s
  BY DEF NextOf

\* The recursive equation of a sum has a solution.
LEMMA SummingExists ==
    ASSUME NEW f, NEW S, IsFiniteSet(S)
    PROVE  \E g : Summing(f, S, g)
<1> DEFINE Solved(n, g) == \A s \in SUBSET S : Cardinality(s) <= n => g[s] = OneMore(f, g, s)
           N == {n \in Nat : \E g : Solved(n, g)}
<1>0. \A s \in SUBSET S : IsFiniteSet(s) /\ Cardinality(s) \in Nat
  BY FS_Subset, FS_CardinalityType
<1>1. 0 \in N
  <2> DEFINE g == [s \in SUBSET S |-> 0]
  <2>1. \A s \in SUBSET S : Cardinality(s) <= 0 => s = {}
    BY <1>0, FS_EmptySet
  <2>2. Solved(0, g)
    BY <2>1 DEF OneMore
  <2> QED
    BY <2>2
<1>2. ASSUME NEW n \in Nat, n \in N
      PROVE  n + 1 \in N
  <2>1. PICK g : Solved(n, g)
    BY <1>2
  <2> DEFINE h == [s \in SUBSET S |-> OneMore(f, g, s)]
  <2>2. \A s \in SUBSET S : Cardinality(s) <= n => g[s] = h[s]
    BY <2>1
  <2>3. \A s \in SUBSET S : h[s] = OneMore(f, g, s)
    OBVIOUS
  <2> HIDE DEF h
  <2>4. ASSUME NEW s \in SUBSET S, Cardinality(s) <= n + 1
        PROVE  h[s] = OneMore(f, h, s)
    <3>1. CASE s = {}
      BY <2>3, <3>1 DEF OneMore
    <3>2. CASE s # {}
      <4>1. PICK x : x = NextOf(s)
        OBVIOUS
      <4>2. x \in s
        BY <3>2, <4>1, NextIn
      <4>3. Cardinality(s \ {x}) = Cardinality(s) - 1 /\ Cardinality(s) \in Nat
        BY <1>0, <4>2, LessOne
      <4>4. s \ {x} \in SUBSET S /\ Cardinality(s \ {x}) <= n
        BY <2>4, <4>3
      <4>5. g[s \ {x}] = h[s \ {x}]
        BY <2>2, <4>4
      <4> QED
        BY <2>3, <4>1, <4>5 DEF OneMore
    <3> QED
      BY <3>1, <3>2
  <2> QED
    BY <2>4
<1> HIDE DEF N
<1>3. \A n \in Nat : n \in N
  BY <1>1, <1>2, NaturalInduction
<1>4. PICK g : Solved(Cardinality(S), g)
  BY <1>0, <1>3 DEF N
<1> DEFINE h == [s \in SUBSET S |-> OneMore(f, g, s)]
<1>5. \A s \in SUBSET S : g[s] = OneMore(f, g, s)
  <2>1. \A s \in SUBSET S : Cardinality(s) <= Cardinality(S)
    BY FS_Subset
  <2> QED
    BY <1>4, <2>1
<1>6. \A s \in SUBSET S : h[s] = g[s]
  BY <1>5
<1>7. \A s \in SUBSET S : OneMore(f, g, s) = OneMore(f, h, s)
  <2> SUFFICES ASSUME NEW s \in SUBSET S, s # {} PROVE OneMore(f, g, s) = OneMore(f, h, s)
    BY DEF OneMore
  <2>1. NextOf(s) \in s
    BY NextIn
  <2>2. s \ {NextOf(s)} \in SUBSET S
    OBVIOUS
  <2> HIDE DEF h
  <2> QED
    BY <1>6, <2>2 DEF OneMore
<1>8. h = [s \in SUBSET S |-> OneMore(f, h, s)]
  BY <1>7
<1> QED
  BY <1>8 DEF Summing

\* Any two solutions agree.
LEMMA SummingUnique ==
    ASSUME NEW f, NEW S, IsFiniteSet(S), NEW T \in SUBSET S, NEW g, Summing(f, S, g), NEW h, Summing(f, T, h)
    PROVE  g[T] = h[T]
<1> DEFINE N == {n \in Nat : \A s \in SUBSET T : Cardinality(s) = n => g[s] = h[s]}
<1>0. \A s \in SUBSET T : /\ s \in SUBSET S /\ IsFiniteSet(s) /\ Cardinality(s) \in Nat
                          /\ g[s] = OneMore(f, g, s) /\ h[s] = OneMore(f, h, s)
  BY FS_Subset, FS_CardinalityType DEF Summing
<1>1. 0 \in N
  <2> SUFFICES ASSUME NEW s \in SUBSET T, Cardinality(s) = 0 PROVE g[s] = h[s]
    OBVIOUS
  <2>1. s = {}
    BY <1>0, FS_EmptySet
  <2> QED
    BY <1>0, <2>1 DEF OneMore
<1>2. ASSUME NEW n \in Nat, n \in N
      PROVE  n + 1 \in N
  <2> SUFFICES ASSUME NEW s \in SUBSET T, Cardinality(s) = n + 1 PROVE g[s] = h[s]
    OBVIOUS
  <2>1. s # {}
    BY FS_EmptySet
  <2>2. PICK x : x = NextOf(s)
    OBVIOUS
  <2>3. x \in s
    BY <2>1, <2>2, NextIn
  <2>4. s \ {x} \in SUBSET T /\ Cardinality(s \ {x}) = n
    BY <1>0, <2>3, LessOne
  <2>5. g[s \ {x}] = h[s \ {x}]
    BY <1>2, <2>4
  <2> QED
    BY <1>0, <2>2, <2>5 DEF OneMore
<1> HIDE DEF N
<1>3. \A n \in Nat : n \in N
  BY <1>1, <1>2, NaturalInduction
<1> QED
  BY <1>0, <1>3 DEF N

LEMMA SumSolves ==
    ASSUME NEW f, NEW S, IsFiniteSet(S)
    PROVE  \E g : Summing(f, S, g) /\ SumFunctionOnSet(f, S) = g[S]
<1> DEFINE g == CHOOSE g : Summing(f, S, g)
<1>1. Summing(f, S, g)
  BY SummingExists
<1>2. SumFunctionOnSet(f, S) = g[S]
  BY DEF SumFunctionOnSet, FoldFunctionOnSet, MapThenFoldSet, Summing, OneMore, NextOf
<1> QED
  BY <1>1, <1>2

LEMMA SumEmpty ==
    ASSUME NEW f
    PROVE  SumFunctionOnSet(f, {}) = 0
<1>1. IsFiniteSet({})
  BY FS_EmptySet
<1>2. PICK g : Summing(f, {}, g) /\ SumFunctionOnSet(f, {}) = g[{}]
  BY <1>1, SumSolves
<1>3. g[{}] = OneMore(f, g, {})
  BY <1>2 DEF Summing
<1> QED
  BY <1>2, <1>3 DEF OneMore

LEMMA SumNext ==
    ASSUME NEW f, NEW S, IsFiniteSet(S), S # {}
    PROVE  SumFunctionOnSet(f, S) = f[NextOf(S)] + SumFunctionOnSet(f, S \ {NextOf(S)})
<1>1. PICK x : x = NextOf(S)
  OBVIOUS
<1>2. PICK T : T = S \ {x}
  OBVIOUS
<1>3. T \in SUBSET S /\ IsFiniteSet(T)
  BY <1>2, FS_Subset
<1>4. PICK g : Summing(f, S, g) /\ SumFunctionOnSet(f, S) = g[S]
  BY SumSolves
<1>5. PICK h : Summing(f, T, h) /\ SumFunctionOnSet(f, T) = h[T]
  BY <1>3, SumSolves
<1>6. g[T] = h[T]
  BY <1>3, <1>4, <1>5, SummingUnique
<1>7. g[S] = OneMore(f, g, S)
  BY <1>4 DEF Summing
<1> QED
  BY <1>1, <1>2, <1>4, <1>5, <1>6, <1>7 DEF OneMore

AreNatural(f, S) == \A s \in S : f[s] \in Nat

LEMMA SumNatural ==
    ASSUME NEW f, NEW S, IsFiniteSet(S), AreNatural(f, S)
    PROVE  SumFunctionOnSet(f, S) \in Nat
<1> DEFINE N == {n \in Nat : \A s \in SUBSET S : Cardinality(s) = n => SumFunctionOnSet(f, s) \in Nat}
<1>0. \A s \in SUBSET S : IsFiniteSet(s) /\ Cardinality(s) \in Nat
  BY FS_Subset, FS_CardinalityType
<1>1. 0 \in N
  <2> SUFFICES ASSUME NEW s \in SUBSET S, Cardinality(s) = 0 PROVE SumFunctionOnSet(f, s) \in Nat
    OBVIOUS
  <2>1. s = {}
    BY <1>0, FS_EmptySet
  <2> QED
    BY <2>1, SumEmpty
<1>2. ASSUME NEW n \in Nat, n \in N
      PROVE  n + 1 \in N
  <2> SUFFICES ASSUME NEW s \in SUBSET S, Cardinality(s) = n + 1 PROVE SumFunctionOnSet(f, s) \in Nat
    OBVIOUS
  <2>1. s # {} /\ IsFiniteSet(s)
    BY <1>0, FS_EmptySet
  <2>2. PICK x : x = NextOf(s)
    OBVIOUS
  <2>3. x \in s /\ SumFunctionOnSet(f, s) = f[x] + SumFunctionOnSet(f, s \ {x})
    BY <2>1, <2>2, NextIn, SumNext
  <2>4. s \ {x} \in SUBSET S /\ Cardinality(s \ {x}) = n /\ f[x] \in Nat
    BY <1>0, <2>3, LessOne DEF AreNatural
  <2>5. SumFunctionOnSet(f, s \ {x}) \in Nat
    BY <1>2, <2>4
  <2> QED
    BY <2>3, <2>4, <2>5
<1> HIDE DEF N
<1>3. \A n \in Nat : n \in N
  BY <1>1, <1>2, NaturalInduction
<1> QED
  BY <1>0, <1>3 DEF N

\* The order in which a sum takes the elements does not matter.
LEMMA SumElement ==
    ASSUME NEW f, NEW S, IsFiniteSet(S), AreNatural(f, S), NEW z \in S
    PROVE  SumFunctionOnSet(f, S) = f[z] + SumFunctionOnSet(f, S \ {z})
<1> DEFINE Good(s) == \A x \in s : SumFunctionOnSet(f, s) = f[x] + SumFunctionOnSet(f, s \ {x})
           N == {n \in Nat : \A s \in SUBSET S : Cardinality(s) = n => Good(s)}
<1>0. \A s \in SUBSET S : IsFiniteSet(s) /\ Cardinality(s) \in Nat /\ SumFunctionOnSet(f, s) \in Nat
  BY FS_Subset, FS_CardinalityType, SumNatural DEF AreNatural
<1>1. 0 \in N
  <2>1. \A s \in SUBSET S : Cardinality(s) = 0 => s = {}
    BY <1>0, FS_EmptySet
  <2> QED
    BY <2>1
<1>2. ASSUME NEW n \in Nat, n \in N
      PROVE  n + 1 \in N
  <2> SUFFICES ASSUME NEW s \in SUBSET S, Cardinality(s) = n + 1, NEW x \in s
               PROVE  SumFunctionOnSet(f, s) = f[x] + SumFunctionOnSet(f, s \ {x})
    OBVIOUS
  <2>1. s # {} /\ IsFiniteSet(s)
    BY <1>0
  <2>2. PICK y : y = NextOf(s)
    OBVIOUS
  <2>3. y \in s /\ SumFunctionOnSet(f, s) = f[y] + SumFunctionOnSet(f, s \ {y})
    BY <2>1, <2>2, NextIn, SumNext
  <2>4. \A w \in s : s \ {w} \in SUBSET S /\ Cardinality(s \ {w}) = n
    BY <1>0, LessOne
  <2>5. \A w \in s : Good(s \ {w})
    BY <1>2, <2>4
  <2> HIDE DEF N
  <2>6. CASE x = y
    BY <2>3, <2>6
  <2>7. CASE x # y
    <3>1. x \in s \ {y} /\ y \in s \ {x}
      BY <2>3, <2>7
    <3>2. PICK t : t = (s \ {y}) \ {x}
      OBVIOUS
    <3>3. t = (s \ {x}) \ {y} /\ t \in SUBSET S
      BY <3>2
    <3>4. SumFunctionOnSet(f, s \ {y}) = f[x] + SumFunctionOnSet(f, t)
      BY <2>3, <2>5, <3>1, <3>2
    <3>5. SumFunctionOnSet(f, s \ {x}) = f[y] + SumFunctionOnSet(f, t)
      BY <2>5, <3>1, <3>3
    <3>6. f[x] \in Nat /\ f[y] \in Nat /\ SumFunctionOnSet(f, t) \in Nat
      BY <1>0, <2>3, <3>3 DEF AreNatural
    <3> QED
      BY <2>3, <3>4, <3>5, <3>6
  <2> QED
    BY <2>6, <2>7
<1> HIDE DEF N
<1>3. \A n \in Nat : n \in N
  BY <1>1, <1>2, NaturalInduction
<1>4. Good(S)
  BY <1>0, <1>3 DEF N
<1> QED
  BY <1>4

\* A sum depends on the values that it adds alone.
LEMMA SumAgrees ==
    ASSUME NEW f, NEW g, NEW S, IsFiniteSet(S), AreNatural(f, S), \A s \in S : g[s] = f[s]
    PROVE  SumFunctionOnSet(g, S) = SumFunctionOnSet(f, S)
<1> DEFINE N == {n \in Nat : \A s \in SUBSET S :
                    Cardinality(s) = n => SumFunctionOnSet(g, s) = SumFunctionOnSet(f, s)}
<1>0. \A s \in SUBSET S : IsFiniteSet(s) /\ Cardinality(s) \in Nat
  BY FS_Subset, FS_CardinalityType
<1>1. 0 \in N
  <2>1. \A s \in SUBSET S : Cardinality(s) = 0 => s = {}
    BY <1>0, FS_EmptySet
  <2>2. SumFunctionOnSet(g, {}) = SumFunctionOnSet(f, {})
    BY SumEmpty
  <2> QED
    BY <2>1, <2>2
<1>2. ASSUME NEW n \in Nat, n \in N
      PROVE  n + 1 \in N
  <2> SUFFICES ASSUME NEW s \in SUBSET S, Cardinality(s) = n + 1
               PROVE  SumFunctionOnSet(g, s) = SumFunctionOnSet(f, s)
    OBVIOUS
  <2>1. s # {} /\ IsFiniteSet(s)
    BY <1>0, FS_EmptySet
  <2>2. PICK x \in s : x = NextOf(s)
    BY <2>1, NextIn
  <2>3. /\ SumFunctionOnSet(f, s) = f[x] + SumFunctionOnSet(f, s \ {x})
        /\ SumFunctionOnSet(g, s) = g[x] + SumFunctionOnSet(g, s \ {x})
    BY <2>1, <2>2, SumNext
  <2>4. s \ {x} \in SUBSET S /\ Cardinality(s \ {x}) = n
    BY <1>0, <2>2, LessOne
  <2>5. SumFunctionOnSet(g, s \ {x}) = SumFunctionOnSet(f, s \ {x})
    BY <1>2, <2>4
  <2> QED
    BY <2>3, <2>5
<1> HIDE DEF N
<1>3. \A n \in Nat : n \in N
  BY <1>1, <1>2, NaturalInduction
<1> QED
  BY <1>0, <1>3 DEF N

\* The sum over a sequence, its first element apart.
LEMMA SumTail ==
    ASSUME NEW n \in Nat, NEW f, AreNatural(f, 1..(n + 1)), NEW h, \A i \in 1..n : h[i] = f[i + 1]
    PROVE  SumFunctionOnSet(f, 1..(n + 1)) = f[1] + SumFunctionOnSet(h, 1..n)
<1> DEFINE N == {m \in Nat : m <= n => SumFunctionOnSet(f, 1..(m + 1)) = f[1] + SumFunctionOnSet(h, 1..m)}
<1>0. \A m \in Nat : IsFiniteSet(1..m)
  BY FS_Interval
<1>1. 0 \in N
  <2>1. PICK A : A = 1..1
    OBVIOUS
  <2>2. AreNatural(f, A) /\ 1 \in A /\ A \ {1} = {} /\ 1..0 = {} /\ 0 + 1 = 1 /\ f[1] \in Nat
    BY <2>1 DEF AreNatural
  <2>3. IsFiniteSet(A)
    BY <1>0, <2>1
  <2>4. SumFunctionOnSet(f, A) = f[1] + SumFunctionOnSet(f, A \ {1})
    BY <2>2, <2>3, SumElement
  <2>5. SumFunctionOnSet(f, {}) = 0 /\ SumFunctionOnSet(h, {}) = 0
    BY SumEmpty
  <2> QED
    BY <2>1, <2>2, <2>4, <2>5
<1>2. ASSUME NEW m \in Nat, m \in N
      PROVE  m + 1 \in N
  <2> SUFFICES ASSUME m + 1 <= n
               PROVE  SumFunctionOnSet(f, 1..(m + 1 + 1)) = f[1] + SumFunctionOnSet(h, 1..(m + 1))
    OBVIOUS
  <2>1. SumFunctionOnSet(f, 1..(m + 1)) = f[1] + SumFunctionOnSet(h, 1..m)
    BY <1>2
  <2>2. PICK A : A = 1..(m + 1 + 1)
    OBVIOUS
  <2>3. PICK B : B = 1..(m + 1)
    OBVIOUS
  <2>4. PICK C : C = 1..m
    OBVIOUS
  <2>5. PICK x \in A : x = m + 1 + 1
    BY <2>2
  <2>6. PICK y \in B : y = m + 1
    BY <2>3
  <2>7. AreNatural(f, A) /\ AreNatural(h, B) /\ AreNatural(h, C) /\ f[1] \in Nat
    BY <2>2, <2>3, <2>4 DEF AreNatural
  <2>8. A \ {x} = B /\ B \ {y} = C
    BY <2>2, <2>3, <2>4, <2>5, <2>6
  <2>9. IsFiniteSet(A) /\ IsFiniteSet(B) /\ IsFiniteSet(C)
    BY <1>0, <2>2, <2>3, <2>4
  <2>10. /\ SumFunctionOnSet(f, A) = f[x] + SumFunctionOnSet(f, B)
         /\ SumFunctionOnSet(h, B) = h[y] + SumFunctionOnSet(h, C)
    BY <2>7, <2>8, <2>9, SumElement
  <2>11. h[y] = f[x] /\ h[y] \in Nat
    BY <2>5, <2>6, <2>7 DEF AreNatural
  <2>12. SumFunctionOnSet(h, C) \in Nat
    BY <2>7, <2>9, SumNatural
  <2>13. SumFunctionOnSet(f, B) = f[1] + SumFunctionOnSet(h, C)
    BY <2>1, <2>3, <2>4
  <2>14. SumFunctionOnSet(f, A) = f[1] + SumFunctionOnSet(h, B)
    BY <2>7, <2>10, <2>11, <2>12, <2>13
  <2> QED
    BY <2>2, <2>3, <2>14
<1> HIDE DEF N
<1>3. \A m \in Nat : m \in N
  BY <1>1, <1>2, NaturalInduction
<1> QED
  BY <1>3 DEF N

-----------------------------------------------------------------------------
(* What a transaction asks for *)

\* A value for every depth from that for the depth below.
Iterates(V, b, F) ==
    \A n \in Nat : \E f \in [0..n -> V] : f[0] = b /\ \A d \in 1..n : f[d] = F[f[d - 1]]

LEMMA IterationExists ==
    ASSUME NEW V, NEW b, NEW F, b \in V, F \in [V -> V]
    PROVE  Iterates(V, b, F)
<1> DEFINE Good(n, f) == f[0] = b /\ \A d \in 1..n : f[d] = F[f[d - 1]]
           N == {n \in Nat : \E f \in [0..n -> V] : Good(n, f)}
<1>1. 0 \in N
  <2> DEFINE f == [d \in 0..0 |-> b]
  <2>1. f \in [0..0 -> V] /\ Good(0, f)
    OBVIOUS
  <2> QED
    BY <2>1
<1>2. ASSUME NEW n \in Nat, n \in N
      PROVE  n + 1 \in N
  <2>1. PICK f \in [0..n -> V] : Good(n, f)
    BY <1>2
  <2> DEFINE g == [d \in 0..(n + 1) |-> IF d = n + 1 THEN F[f[n]] ELSE f[d]]
  <2>2. g \in [0..(n + 1) -> V]
    BY <2>1
  <2>3. (\A d \in 0..n : g[d] = f[d]) /\ g[n + 1] = F[f[n]]
    OBVIOUS
  <2> HIDE DEF g
  <2>4. ASSUME NEW d \in 1..(n + 1)
        PROVE  g[d] = F[g[d - 1]]
    <3>1. d - 1 \in 0..n
      OBVIOUS
    <3>2. CASE d = n + 1
      BY <2>3, <3>1, <3>2
    <3>3. CASE d # n + 1
      <4>1. d \in 1..n /\ d \in 0..n
        BY <3>3
      <4> QED
        BY <2>1, <2>3, <3>1, <4>1
    <3> QED
      BY <3>2, <3>3
  <2>5. g[0] = b
    BY <2>1, <2>3
  <2> QED
    BY <2>2, <2>4, <2>5
<1> HIDE DEF N
<1>3. \A n \in Nat : n \in N
  BY <1>1, <1>2, NaturalInduction
<1> QED
  BY <1>3 DEF N, Iterates

Chain(F, g) == g = [d \in 0..Cardinality(Safe) |-> IF d = 0 THEN {} ELSE F[g[d - 1]]]

Links(F, g) == g[0] = {} /\ \A n \in Nat : n + 1 <= Cardinality(Safe) => g[n + 1] = F[g[n]]

LEMMA ChainExists ==
    ASSUME NEW F \in [SUBSET Safe -> SUBSET Safe]
    PROVE  \E g : Chain(F, g)
<1>1. Cardinality(Safe) \in Nat
  BY NetworkAssumption, FS_CardinalityType
<1>2. Iterates(SUBSET Safe, {}, F)
  BY IterationExists
<1>3. PICK g \in [0..Cardinality(Safe) -> SUBSET Safe] :
          g[0] = {} /\ \A d \in 1..Cardinality(Safe) : g[d] = F[g[d - 1]]
  BY <1>1, <1>2 DEF Iterates
<1>4. \A d \in 0..Cardinality(Safe) : g[d] = IF d = 0 THEN {} ELSE F[g[d - 1]]
  BY <1>1, <1>3
<1> QED
  BY <1>4 DEF Chain

LEMMA ChainLinks ==
    ASSUME NEW F, NEW g, Chain(F, g)
    PROVE  Links(F, g)
<1>1. Cardinality(Safe) \in Nat
  BY NetworkAssumption, FS_CardinalityType
<1>2. \A d \in 0..Cardinality(Safe) : g[d] = IF d = 0 THEN {} ELSE F[g[d - 1]]
  BY DEF Chain
<1>3. g[0] = {}
  BY <1>1, <1>2
<1>4. ASSUME NEW n \in Nat, n + 1 <= Cardinality(Safe) PROVE g[n + 1] = F[g[n]]
  <2>1. n + 1 \in 0..Cardinality(Safe) /\ n + 1 # 0 /\ n + 1 - 1 = n
    BY <1>1, <1>4
  <2> QED
    BY <1>2, <2>1
<1> QED
  BY <1>3, <1>4 DEF Links

\* What `next` makes of a set within another is within what `wider` makes of
\* the other.
LEMMA DeepestWithin ==
    ASSUME NEW next \in [SUBSET Safe -> SUBSET Safe], NEW wider \in [SUBSET Safe -> SUBSET Safe],
           \A X \in SUBSET Safe : \A Y \in SUBSET Safe : X \subseteq Y => next[X] \subseteq wider[Y]
    PROVE  Deepest(next) \subseteq Deepest(wider)
<1> DEFINE V == SUBSET Safe
           f == CHOOSE g : Chain(next, g)
           h == CHOOSE g : Chain(wider, g)
           N == {n \in Nat : n <= Cardinality(Safe) => f[n] \in V /\ h[n] \in V /\ f[n] \subseteq h[n]}
<1>0. Cardinality(Safe) \in Nat
  BY NetworkAssumption, FS_CardinalityType
<1>3. Chain(next, f) /\ Chain(wider, h)
  BY ChainExists
<1>4. Deepest(next) = f[Cardinality(Safe)] /\ Deepest(wider) = h[Cardinality(Safe)]
  BY DEF Deepest, Chain
<1> HIDE DEF f, h
<1>5. f[0] = {} /\ \A n \in Nat : n + 1 <= Cardinality(Safe) => f[n + 1] = next[f[n]]
  BY <1>3, ChainLinks DEF Links
<1>6. h[0] = {} /\ \A n \in Nat : n + 1 <= Cardinality(Safe) => h[n + 1] = wider[h[n]]
  BY <1>3, ChainLinks DEF Links
<1>7. 0 \in N
  BY <1>5, <1>6
<1>8. ASSUME NEW n \in Nat, n \in N PROVE n + 1 \in N
  <2> SUFFICES ASSUME n + 1 <= Cardinality(Safe)
               PROVE  f[n + 1] \in V /\ h[n + 1] \in V /\ f[n + 1] \subseteq h[n + 1]
    OBVIOUS
  <2>1. f[n] \in V /\ h[n] \in V /\ f[n] \subseteq h[n]
    BY <1>0, <1>8
  <2>2. f[n + 1] = next[f[n]] /\ h[n + 1] = wider[h[n]]
    BY <1>5, <1>6
  <2> QED
    BY <2>1, <2>2
<1> HIDE DEF N
<1>9. \A n \in Nat : n \in N
  BY <1>7, <1>8, NaturalInduction
<1>10. f[Cardinality(Safe)] \subseteq h[Cardinality(Safe)]
  BY <1>0, <1>9 DEF N
<1> QED
  BY <1>4, <1>10

\* Who stands up for a message of the Safe o when it is a message of `agreed`
\* too: <<o, p>> of `approvals` says that p has approved it.
Backers(o, h, approvals, agreed) ==
    {p \in Owners[o] : \/ <<p, messageHash(o, h)>> \in Confirmed
                       \/ <<o, p>> \in approvals
                       \/ p \in agreed}

Agree(signers, approvals, h) ==
    [agreed \in SUBSET Safe |->
        {o \in Safe : o \in signers \/ Cardinality(Backers(o, h, approvals, agreed)) >= Threshold[o]}]

LEMMA OwnersFinite ==
    ASSUME NEW s \in Safe
    PROVE  IsFiniteSet(Owners[s]) /\ Owners[s] \subseteq Safe \cup Key /\ Threshold[s] \in Nat
<1>1. IsFiniteSet(Safe) /\ IsFiniteSet(Key)
  BY NetworkAssumption
<1>2. Owners[s] \subseteq Safe \cup Key /\ Threshold[s] \in 1..Cardinality(Owners[s])
  BY NetworkAssumption
<1>3. IsFiniteSet(Owners[s])
  BY <1>1, <1>2, FS_Union, FS_Subset
<1>4. Cardinality(Owners[s]) \in Nat
  BY <1>3, FS_CardinalityType
<1> QED
  BY <1>2, <1>3, <1>4

LEMMA MoreOwners ==
    ASSUME NEW o \in Safe, NEW P \in SUBSET Owners[o], NEW Q \in SUBSET Owners[o], P \subseteq Q,
           Cardinality(P) >= Threshold[o]
    PROVE  Cardinality(Q) >= Threshold[o]
<1>1. IsFiniteSet(Q)
  BY OwnersFinite, FS_Subset
<1>2. Cardinality(P) <= Cardinality(Q) /\ Cardinality(P) \in Nat /\ Cardinality(Q) \in Nat
  BY <1>1, FS_Subset, FS_CardinalityType
<1> QED
  BY <1>2, OwnersFinite

LEMMA AgreeWithin ==
    ASSUME NEW h, NEW signers, NEW approvals, NEW signers2, NEW approvals2,
           signers \subseteq signers2, approvals \subseteq approvals2
    PROVE  Deepest(Agree(signers, approvals, h)) \subseteq Deepest(Agree(signers2, approvals2, h))
<1>1. ASSUME NEW X \in SUBSET Safe, NEW Y \in SUBSET Safe, X \subseteq Y
      PROVE  Agree(signers, approvals, h)[X] \subseteq Agree(signers2, approvals2, h)[Y]
  <2> SUFFICES ASSUME NEW o \in Safe, Cardinality(Backers(o, h, approvals, X)) >= Threshold[o]
               PROVE  Cardinality(Backers(o, h, approvals2, Y)) >= Threshold[o]
    BY DEF Agree
  <2>1. /\ Backers(o, h, approvals, X) \in SUBSET Owners[o] /\ Backers(o, h, approvals2, Y) \in SUBSET Owners[o]
        /\ Backers(o, h, approvals, X) \subseteq Backers(o, h, approvals2, Y)
    BY <1>1 DEF Backers
  <2> QED
    BY <2>1, MoreOwners
<1>2. /\ Agree(signers, approvals, h) \in [SUBSET Safe -> SUBSET Safe]
      /\ Agree(signers2, approvals2, h) \in [SUBSET Safe -> SUBSET Safe]
  BY DEF Agree
<1> QED
  BY <1>1, <1>2, DeepestWithin

InsideType == [Item -> Seq(Item)]

PartsBelow(inside, p, item) == UNION {p[inside[item][i]] : i \in DOMAIN inside[item]}

PartsWith(inside, p, d) ==
    [item \in Item |-> {item} \cup IF d = 0 THEN {} ELSE PartsBelow(inside, p[d - 1], item)]

LEMMA PartsExist ==
    ASSUME NEW inside \in InsideType
    PROVE  \E p : p = [d \in 0..MaxDepth |-> PartsWith(inside, p, d)]
<1> DEFINE V == [Item -> SUBSET Item]
           b == [item \in Item |-> {item}]
           F == [q \in V |-> [item \in Item |-> {item} \cup PartsBelow(inside, q, item)]]
<1>1. b \in V
  OBVIOUS
<1>2. F \in [V -> V]
  <2> SUFFICES ASSUME NEW q \in V, NEW item \in Item PROVE {item} \cup PartsBelow(inside, q, item) \in SUBSET Item
    OBVIOUS
  <2>1. \A i \in DOMAIN inside[item] : inside[item][i] \in Item
    BY DEF InsideType
  <2>2. \A i \in DOMAIN inside[item] : q[inside[item][i]] \in SUBSET Item
    BY <2>1
  <2> QED
    BY <2>2 DEF PartsBelow
<1> HIDE DEF b, F
<1>3. PICK p \in [0..MaxDepth -> V] : p[0] = b /\ \A d \in 1..MaxDepth : p[d] = F[p[d - 1]]
  <2>1. MaxDepth \in Nat
    BY NetworkAssumption
  <2> HIDE DEF V
  <2>2. Iterates(V, b, F)
    BY <1>1, <1>2, IterationExists
  <2> QED
    BY <2>1, <2>2 DEF Iterates
<1>4. ASSUME NEW d \in 0..MaxDepth
      PROVE  p[d] = PartsWith(inside, p, d)
  <2>1. CASE d = 0
    BY <1>3, <2>1 DEF PartsWith, b
  <2>2. CASE d # 0
    <3>1. d \in 1..MaxDepth /\ d - 1 \in 0..MaxDepth
      BY <2>2, NetworkAssumption
    <3>2. p[d - 1] \in V /\ p[d] = F[p[d - 1]]
      BY <1>3, <3>1
    <3> QED
      BY <2>2, <3>2 DEF PartsWith, F
  <2> QED
    BY <2>1, <2>2
<1>5. p = [d \in 0..MaxDepth |-> PartsWith(inside, p, d)]
  BY <1>3, <1>4
<1> QED
  BY <1>5

LEMMA PartsSolve ==
    ASSUME NEW inside \in InsideType, NEW d \in 0..MaxDepth, NEW item \in Item
    PROVE  PartsAt(inside)[d][item] =
              {item} \cup IF d = 0 THEN {} ELSE PartsBelow(inside, PartsAt(inside)[d - 1], item)
<1> DEFINE p == CHOOSE q : q = [c \in 0..MaxDepth |-> PartsWith(inside, q, c)]
<1>1. PartsAt(inside) = p
  BY DEF PartsAt, PartsWith, PartsBelow
<1>2. p = [c \in 0..MaxDepth |-> PartsWith(inside, p, c)]
  BY PartsExist
<1> HIDE DEF p
<1>3. p[d] = PartsWith(inside, p, d)
  BY <1>2
<1> QED
  BY <1>1, <1>3 DEF PartsWith

LEMMA PartsItself ==
    ASSUME NEW inside \in InsideType, NEW d \in 0..MaxDepth, NEW item \in Item
    PROVE  item \in PartsAt(inside)[d][item]
  BY PartsSolve

LEMMA PartsInside ==
    ASSUME NEW inside \in InsideType, NEW d \in 0..MaxDepth, d # 0, NEW item \in Item, NEW part
    PROVE  part \in PartsAt(inside)[d][item] <=>
              \/ part = item
              \/ \E i \in DOMAIN inside[item] : part \in PartsAt(inside)[d - 1][inside[item][i]]
  BY PartsSolve DEF PartsBelow

LEMMA PartsGrow ==
    ASSUME NEW inside \in InsideType
    PROVE  \A d \in Nat : d + 1 <= MaxDepth =>
              \A item \in Item : PartsAt(inside)[d][item] \subseteq PartsAt(inside)[d + 1][item]
<1> DEFINE p == PartsAt(inside)
           N == {d \in Nat : d + 1 <= MaxDepth => \A item \in Item : p[d][item] \subseteq p[d + 1][item]}
<1>0. MaxDepth \in Nat /\ \A item \in Item : \A i \in DOMAIN inside[item] : inside[item][i] \in Item
  BY NetworkAssumption DEF InsideType
<1>1. 0 \in N
  <2> SUFFICES ASSUME 1 <= MaxDepth, NEW item \in Item PROVE p[0][item] \subseteq p[1][item]
    OBVIOUS
  <2>1. p[0][item] = {item}
    BY <1>0, PartsSolve
  <2>2. item \in p[1][item]
    BY <1>0, PartsItself
  <2> QED
    BY <2>1, <2>2
<1>2. ASSUME NEW d \in Nat, d \in N
      PROVE  d + 1 \in N
  <2> SUFFICES ASSUME d + 1 + 1 <= MaxDepth, NEW item \in Item, NEW part \in p[d + 1][item]
               PROVE  part \in p[d + 1 + 1][item]
    OBVIOUS
  <2>1. \A it \in Item : p[d][it] \subseteq p[d + 1][it]
    BY <1>0, <1>2
  <2>2. /\ d + 1 \in 0..MaxDepth /\ d + 1 # 0 /\ d + 1 - 1 = d
        /\ d + 1 + 1 \in 0..MaxDepth /\ d + 1 + 1 # 0 /\ d + 1 + 1 - 1 = d + 1
    BY <1>0
  <2> HIDE DEF p, N
  <2>3. CASE part = item
    BY <2>2, <2>3, PartsItself DEF p
  <2>4. CASE part # item
    <3>1. PICK i \in DOMAIN inside[item] : part \in p[d][inside[item][i]]
      BY <2>2, <2>4, PartsInside DEF p
    <3>2. part \in p[d + 1][inside[item][i]]
      BY <1>0, <2>1, <3>1
    <3> QED
      BY <2>2, <3>2, PartsInside DEF p
  <2> QED
    BY <2>3, <2>4
<1> HIDE DEF N
<1>3. \A d \in Nat : d \in N
  BY <1>1, <1>2, NaturalInduction
<1> QED
  BY <1>3 DEF N

\* The calls inside a part are parts one level down.
LEMMA PartsDeeper ==
    ASSUME NEW inside \in InsideType
    PROVE  \A d \in Nat : d + 1 <= MaxDepth =>
              \A item \in Item : \A part \in PartsAt(inside)[d][item] : \A i \in DOMAIN inside[part] :
                 inside[part][i] \in PartsAt(inside)[d + 1][item]
<1> DEFINE p == PartsAt(inside)
           N == {d \in Nat : d + 1 <= MaxDepth =>
                    \A item \in Item : \A part \in p[d][item] : \A i \in DOMAIN inside[part] :
                       inside[part][i] \in p[d + 1][item]}
<1>0. MaxDepth \in Nat /\ \A item \in Item : \A i \in DOMAIN inside[item] : inside[item][i] \in Item
  BY NetworkAssumption DEF InsideType
<1>1. ASSUME NEW d \in Nat, d + 1 <= MaxDepth, NEW item \in Item, NEW i \in DOMAIN inside[item]
      PROVE  inside[item][i] \in p[d + 1][item]
  <2>1. d + 1 \in 0..MaxDepth /\ d + 1 # 0 /\ d + 1 - 1 = d /\ d \in 0..MaxDepth /\ inside[item][i] \in Item
    BY <1>0, <1>1
  <2>2. inside[item][i] \in p[d][inside[item][i]]
    BY <2>1, PartsItself
  <2> HIDE DEF p
  <2> QED
    BY <2>1, <2>2, PartsInside DEF p
<1>2. 0 \in N
  <2> SUFFICES ASSUME 0 + 1 <= MaxDepth, NEW item \in Item, NEW part \in p[0][item], NEW i \in DOMAIN inside[part]
               PROVE  inside[part][i] \in p[0 + 1][item]
    OBVIOUS
  <2>1. p[0][item] = {item}
    BY <1>0, PartsSolve
  <2>2. part = item
    BY <2>1
  <2> HIDE DEF p
  <2> QED
    BY <1>1, <2>2
<1>3. ASSUME NEW d \in Nat, d \in N
      PROVE  d + 1 \in N
  <2> SUFFICES ASSUME d + 1 + 1 <= MaxDepth, NEW item \in Item, NEW part \in p[d + 1][item],
                      NEW i \in DOMAIN inside[part]
               PROVE  inside[part][i] \in p[d + 1 + 1][item]
    OBVIOUS
  <2>1. \A it \in Item : \A q \in p[d][it] : \A j \in DOMAIN inside[q] : inside[q][j] \in p[d + 1][it]
    BY <1>0, <1>3
  <2>2. /\ d + 1 \in Nat /\ d + 1 \in 0..MaxDepth /\ d + 1 # 0 /\ d + 1 - 1 = d
        /\ d + 1 + 1 \in 0..MaxDepth /\ d + 1 + 1 # 0 /\ d + 1 + 1 - 1 = d + 1
    BY <1>0
  <2> HIDE DEF p, N
  <2>3. CASE part = item
    BY <1>1, <2>2, <2>3
  <2>4. CASE part # item
    <3>1. PICK j \in DOMAIN inside[item] : part \in p[d][inside[item][j]]
      BY <2>2, <2>4, PartsInside DEF p
    <3>2. inside[part][i] \in p[d + 1][inside[item][j]]
      BY <1>0, <2>1, <3>1
    <3> QED
      BY <2>2, <3>2, PartsInside DEF p
  <2> QED
    BY <2>3, <2>4
<1> HIDE DEF N
<1>4. \A d \in Nat : d \in N
  BY <1>2, <1>3, NaturalInduction
<1> QED
  BY <1>4 DEF N

LEMMA PartsAtMost ==
    ASSUME NEW inside \in InsideType, NEW item \in Item
    PROVE  \A d \in 0..MaxDepth : PartsAt(inside)[d][item] \subseteq PartsAt(inside)[MaxDepth][item]
<1> DEFINE p == PartsAt(inside)
           N == {n \in Nat : \A d \in 0..MaxDepth : d + n = MaxDepth => p[d][item] \subseteq p[MaxDepth][item]}
<1>0. MaxDepth \in Nat
  BY NetworkAssumption
<1>1. 0 \in N
  BY <1>0
<1>2. ASSUME NEW n \in Nat, n \in N
      PROVE  n + 1 \in N
  <2> SUFFICES ASSUME NEW d \in 0..MaxDepth, d + (n + 1) = MaxDepth PROVE p[d][item] \subseteq p[MaxDepth][item]
    OBVIOUS
  <2>1. d \in Nat /\ d + 1 \in 0..MaxDepth /\ (d + 1) + n = MaxDepth /\ d + 1 <= MaxDepth
    BY <1>0
  <2>2. p[d + 1][item] \subseteq p[MaxDepth][item]
    BY <1>2, <2>1
  <2>3. p[d][item] \subseteq p[d + 1][item]
    BY <2>1, PartsGrow
  <2> QED
    BY <2>2, <2>3
<1> HIDE DEF N
<1>3. \A n \in Nat : n \in N
  BY <1>1, <1>2, NaturalInduction
<1>4. ASSUME NEW d \in 0..MaxDepth
      PROVE  p[d][item] \subseteq p[MaxDepth][item]
  <2>1. MaxDepth - d \in Nat /\ d + (MaxDepth - d) = MaxDepth
    BY <1>0
  <2>2. MaxDepth - d \in N
    BY <1>3, <2>1
  <2> QED
    BY <2>1, <2>2 DEF N
<1> QED
  BY <1>4

\* A call of a contract that is neither a Safe nor a library.
Own(item) == IF item.to \in Library \cup Safe THEN 0 ELSE 1

Amount(t, q) == SumFunction([i \in DOMAIN q |-> t[q[i]]])

TouchesWith(inside, t, d) ==
    [item \in Item |-> Own(item) + IF d = 0 THEN 0 ELSE Amount(t[d - 1], inside[item])]

\* Sums of natural numbers along a sequence of calls.
LEMMA AmountNatural ==
    ASSUME NEW t \in [Item -> Nat], NEW q \in Seq(Item)
    PROVE  Amount(t, q) \in Nat
<1> DEFINE f == [i \in DOMAIN q |-> t[q[i]]]
<1>1. IsFiniteSet(DOMAIN q) /\ DOMAIN f = DOMAIN q
  BY FS_Interval
<1>2. AreNatural(f, DOMAIN q)
  BY DEF AreNatural
<1> HIDE DEF f
<1>3. SumFunctionOnSet(f, DOMAIN q) \in Nat
  BY <1>1, <1>2, SumNatural
<1> QED
  BY <1>1, <1>3 DEF Amount, SumFunction, f

LEMMA AmountEmpty ==
    ASSUME NEW t
    PROVE  Amount(t, <<>>) = 0
<1> DEFINE f == [i \in DOMAIN <<>> |-> t[<<>>[i]]]
<1>1. DOMAIN f = {}
  OBVIOUS
<1> HIDE DEF f
<1>2. SumFunctionOnSet(f, {}) = 0
  BY SumEmpty
<1> QED
  BY <1>1, <1>2 DEF Amount, SumFunction, f

LEMMA AmountTail ==
    ASSUME NEW t \in [Item -> Nat], NEW q \in Seq(Item), q # <<>>
    PROVE  Amount(t, q) = t[Head(q)] + Amount(t, Tail(q))
<1> DEFINE f == [i \in DOMAIN q |-> t[q[i]]]
           h == [i \in DOMAIN Tail(q) |-> t[Tail(q)[i]]]
<1>1. PICK n \in Nat : n = Len(q) - 1
  OBVIOUS
<1>2. /\ DOMAIN f = 1..(n + 1) /\ DOMAIN h = 1..n
      /\ \A i \in 1..n : h[i] = f[i + 1]
      /\ f[1] = t[Head(q)]
  BY <1>1
<1>3. AreNatural(f, 1..(n + 1))
  BY <1>1 DEF AreNatural
<1> HIDE DEF f, h
<1>4. SumFunctionOnSet(f, 1..(n + 1)) = f[1] + SumFunctionOnSet(h, 1..n)
  BY <1>2, <1>3, SumTail
<1> QED
  BY <1>2, <1>4 DEF Amount, SumFunction, f, h

LEMMA TouchesExist ==
    ASSUME NEW inside \in InsideType
    PROVE  \E t : t = [d \in 0..MaxDepth |-> TouchesWith(inside, t, d)]
<1> DEFINE V == [Item -> Nat]
           b == [item \in Item |-> Own(item)]
           F == [t \in V |-> [item \in Item |-> Own(item) + Amount(t, inside[item])]]
<1>0. MaxDepth \in Nat
  BY NetworkAssumption
<1>1. b \in V
  BY DEF Own
<1>2. F \in [V -> V]
  <2> SUFFICES ASSUME NEW t \in V, NEW item \in Item PROVE Own(item) + Amount(t, inside[item]) \in Nat
    OBVIOUS
  <2>1. inside[item] \in Seq(Item)
    BY DEF InsideType
  <2>2. Amount(t, inside[item]) \in Nat
    BY <2>1, AmountNatural
  <2> QED
    BY <2>2 DEF Own
<1> HIDE DEF b, F
<1>3. PICK t \in [0..MaxDepth -> V] : t[0] = b /\ \A d \in 1..MaxDepth : t[d] = F[t[d - 1]]
  <2> HIDE DEF V
  <2>1. Iterates(V, b, F)
    BY <1>1, <1>2, IterationExists
  <2> QED
    BY <1>0, <2>1 DEF Iterates
<1>4. ASSUME NEW d \in 0..MaxDepth
      PROVE  t[d] = TouchesWith(inside, t, d)
  <2>1. CASE d = 0
    <3>1. \A item \in Item : Own(item) + 0 = Own(item)
      BY DEF Own
    <3> QED
      BY <1>3, <2>1, <3>1 DEF TouchesWith, b
  <2>2. CASE d # 0
    <3>1. d \in 1..MaxDepth /\ d - 1 \in 0..MaxDepth
      BY <1>0, <2>2
    <3>2. t[d - 1] \in V /\ t[d] = F[t[d - 1]]
      BY <1>3, <3>1
    <3> QED
      BY <2>2, <3>2 DEF TouchesWith, F
  <2> QED
    BY <2>1, <2>2
<1>5. t = [d \in 0..MaxDepth |-> TouchesWith(inside, t, d)]
  BY <1>3, <1>4
<1> QED
  BY <1>5

LEMMA TouchesSolve ==
    ASSUME NEW inside \in InsideType, NEW d \in 0..MaxDepth
    PROVE  TouchesAt(inside)[d] = TouchesWith(inside, TouchesAt(inside), d)
<1> DEFINE t == CHOOSE u : u = [c \in 0..MaxDepth |-> TouchesWith(inside, u, c)]
<1>1. TouchesAt(inside) = t
  BY DEF TouchesAt, TouchesWith, Own, Amount
<1>2. t = [c \in 0..MaxDepth |-> TouchesWith(inside, t, c)]
  BY TouchesExist
<1> HIDE DEF t
<1> QED
  BY <1>1, <1>2

LEMMA TouchesNatural ==
    ASSUME NEW inside \in InsideType
    PROVE  \A d \in 0..MaxDepth : TouchesAt(inside)[d] \in [Item -> Nat]
<1> DEFINE t == TouchesAt(inside)
           N == {n \in Nat : n \in 0..MaxDepth => t[n] \in [Item -> Nat]}
<1>0. MaxDepth \in Nat
  BY NetworkAssumption
<1>1. 0 \in N
  <2>1. t[0] = TouchesWith(inside, t, 0)
    BY <1>0, TouchesSolve
  <2>2. TouchesWith(inside, t, 0) \in [Item -> Nat]
    BY DEF TouchesWith, Own
  <2> QED
    BY <2>1, <2>2
<1>2. ASSUME NEW n \in Nat, n \in N
      PROVE  n + 1 \in N
  <2> SUFFICES ASSUME n + 1 \in 0..MaxDepth PROVE t[n + 1] \in [Item -> Nat]
    OBVIOUS
  <2>1. n \in 0..MaxDepth /\ n + 1 # 0 /\ n + 1 - 1 = n
    BY <1>0
  <2>2. t[n] \in [Item -> Nat]
    BY <1>2, <2>1
  <2>3. t[n + 1] = TouchesWith(inside, t, n + 1)
    BY TouchesSolve
  <2> HIDE DEF t, N
  <2>4. \A item \in Item : Amount(t[n], inside[item]) \in Nat
    BY <2>2, AmountNatural DEF InsideType
  <2>5. TouchesWith(inside, t, n + 1) \in [Item -> Nat]
    BY <2>1, <2>4 DEF TouchesWith, Own
  <2> QED
    BY <2>3, <2>5
<1> HIDE DEF N
<1>3. \A n \in Nat : n \in N
  BY <1>1, <1>2, NaturalInduction
<1> QED
  BY <1>3 DEF N

LEMMA TouchesInside ==
    ASSUME NEW inside \in InsideType, NEW d \in 0..MaxDepth, d # 0, NEW item \in Item
    PROVE  TouchesAt(inside)[d][item] = Own(item) + Amount(TouchesAt(inside)[d - 1], inside[item])
<1>1. TouchesAt(inside)[d] = TouchesWith(inside, TouchesAt(inside), d)
  BY TouchesSolve
<1> QED
  BY <1>1 DEF TouchesWith

LEMMA AllInside ==
    /\ All \in InsideType /\ Sure \in InsideType
    /\ \A item \in Item : All[item] = Inside(item) /\ Sure[item] = Binding(item)
<1>1. ASSUME NEW item \in Item
      PROVE  Inside(item) \in Seq(Item) /\ Binding(item) \in Seq(Item)
  <2>1. /\ Calls(item, "multiSend") => item.data.multiSend \in Seq(Item)
        /\ Calls(item, "simulate") => item.data.simulate \in Item
    BY NetworkAssumption
  <2>2. Inside(item) \in Seq(Item)
    BY <2>1 DEF Inside
  <2> QED
    BY <2>2 DEF Binding
<1> QED
  BY <1>1 DEF All, Sure, InsideType

\* item is one of the calls that tx asks for, d levels down or above.
Deep(tx, d, item) == tx.item \in Item /\ item \in Item /\ item \in PartsAt(All)[d][tx.item]

HasPart(tx, item) == item \in Parts(All, tx)

LEMMA DeepIsPart ==
    ASSUME NEW tx, NEW d \in 0..MaxDepth, NEW item, Deep(tx, d, item)
    PROVE  HasPart(tx, item)
  BY AllInside, PartsAtMost DEF Deep, HasPart, Parts

LEMMA TopLevel ==
    ASSUME NEW tx, tx.item \in Item
    PROVE  Deep(tx, 0, tx.item)
<1>1. 0 \in 0..MaxDepth
  BY NetworkAssumption
<1> QED
  BY <1>1, AllInside, PartsItself DEF Deep

LEMMA OneDeeper ==
    ASSUME NEW tx, NEW d \in 0..MaxDepth, d + 1 <= MaxDepth, NEW item, Deep(tx, d, item),
           NEW i \in DOMAIN Inside(item)
    PROVE  Deep(tx, d + 1, Inside(item)[i])
<1>1. d \in Nat
  BY NetworkAssumption
<1>2. All[item] = Inside(item) /\ Inside(item)[i] \in Item
  BY AllInside DEF Deep, InsideType
<1>3. All[item][i] \in PartsAt(All)[d + 1][tx.item]
  BY <1>1, <1>2, AllInside, PartsDeeper DEF Deep
<1> QED
  BY <1>2, <1>3 DEF Deep

-----------------------------------------------------------------------------
(* The invariant speaks of a world w under n calls in progress: the world    *)
(* now under all of them, and the world each of them returns to under those  *)
(* outside it.  What has happened in w was asked for by a transaction in its *)
(* log, or by one of the first m calls: a transaction whose call is made and *)
(* has not failed.  (The call that a frame now makes counts for the world    *)
(* now and not for the world that this call returns to.)                     *)

Open(f) == f.kind = "exec" /\ f.todo = <<>> /\ ~f.failed

Wants(st, m, w, s, item) ==
    \/ \E e \in w.log : e.safe = s /\ e.ok /\ HasPart(e.tx, item)
    \/ \E i \in 1..m : Open(st[i]) /\ st[i].self = s /\ HasPart(st[i].entry.tx, item)

\* The same for what modules order.
Demands(st, m, w, s, item) ==
    \/ \E e \in w.log : e.safe = s /\ e.ok /\ e.module /\ HasPart(e.tx, item)
    \/ \E i \in 1..m : /\ Open(st[i]) /\ st[i].self = s /\ st[i].entry.module
                       /\ HasPart(st[i].entry.tx, item)

Is(item, to, operation, function) ==
    item.to = to /\ item.operation = operation /\ Calls(item, function)

AsksToSign(st, m, w, s, h) ==
    \E item \in Item : /\ Wants(st, m, w, s, item)
                       /\ Is(item, "SignMessageLib", "delegatecall", "signMessage")
                       /\ item.data.signMessage = h

AsksToMigrate(st, m, w, s) ==
    \E item \in Item : Wants(st, m, w, s, item) /\ Is(item, "Migration", "delegatecall", "migrate")

DemandsToSign(st, m, w, s, h) ==
    \E item \in Item : /\ Demands(st, m, w, s, item)
                       /\ Is(item, "SignMessageLib", "delegatecall", "signMessage")
                       /\ item.data.signMessage = h

DemandsToMigrate(st, m, w, s) ==
    \E item \in Item : Demands(st, m, w, s, item) /\ Is(item, "Migration", "delegatecall", "migrate")

AsksToApprove(st, m, w, o, s, h) ==
    \E item \in Item : /\ Wants(st, m, w, o, item)
                       /\ Is(item, s, "call", "approveHash")
                       /\ item.data.approveHash = h

AsksForGuard(st, m, w, s) ==
    \E item \in Item : Wants(st, m, w, s, item) /\ Is(item, s, "call", "setGuard")

AsksToCall(st, m, w, o, e) ==
    \E item \in Item : /\ Wants(st, m, w, o, item)
                       /\ Is(item, e.safe, "call", "execTransaction")
                       /\ item.data.execTransaction = e.tx

Signers(st, m, w, h) == {o \in Safe : AsksToSign(st, m, w, o, h)}

Approvals(st, m, w, h) ==
    {c \in Safe \X Safe : AsksToApprove(st, m, w, c[2], c[1], messageHash(c[1], h))}

\* The owner o of the Safe of e stands behind e.
Consents(st, m, w, o, e) ==
    LET h == txHash(e.safe, e.tx, e.nonce)
    IN  \/ o \in Deepest(Agree(Signers(st, m, w, h), Approvals(st, m, w, h), h))
        \/ AsksToApprove(st, m, w, o, e.safe, h)
        \/ AsksToCall(st, m, w, o, e)

SignedAsked(st, m, w) == \A c \in w.signed : AsksToSign(st, m, w, c[1], c[2])

ApprovedAsked(st, m, w) == \A c \in w.approved : AsksToApprove(st, m, w, c[2], c[1], c[3])

MigratedAsked(st, m, w) == \A s \in w.migrated : AsksToMigrate(st, m, w, s)

LogConsented(st, m, w) == \A e \in w.log : \A o \in e.by \cap Safe : Consents(st, m, w, o, e)

Strict == AllowedTarget \notin Library \ {"MultiSendCallOnly"}

\* Only modules changed the code of s and signed in its name.
Clean(st, m, w, s) ==
    /\ s \in w.migrated => DemandsToMigrate(st, m, w, s)
    /\ \A c \in w.signed : c[1] = s => DemandsToSign(st, m, w, s, c[2])

Kept(st, m, w) ==
    Strict =>
        \A s \in Safe : w.guard[s] = "noDelegatecall" => AsksForGuard(st, m, w, s) \/ Clean(st, m, w, s)

\* Since the call j began, a guard has changed only on its Safe's demand.
GuardsAsked(st, n, m, w) ==
    \A j \in 1..n : \A s \in Safe : w.guard[s] = st[j].before.guard[s] \/ AsksForGuard(st, m, w, s)

LogGrown(st, n, w) == \A j \in 1..n : st[j].before.log \subseteq w.log

Simulated(st, n) == \E i \in 1..n : st[i].kind = "simulation"

\* Nothing is claimed of what a simulation does.
Claims(st, n, m, w) ==
    /\ LogGrown(st, n, w)
    /\ ~Simulated(st, n) =>
          /\ SignedAsked(st, m, w) /\ ApprovedAsked(st, m, w) /\ MigratedAsked(st, m, w)
          /\ LogConsented(st, m, w) /\ Kept(st, m, w) /\ GuardsAsked(st, n, m, w)

\* The call k works for the transaction of the call i.
Origin(st, i, k) ==
    /\ st[i].kind = "exec" /\ st[i].self = st[k].self
    /\ \A j \in DOMAIN st[k].todo : Deep(st[i].entry.tx, k - i, st[k].todo[j])
    /\ Strict /\ st[i].guard = "noDelegatecall" => k = i \/ (k = i + 1 /\ st[k].kind = "callOnly")

Commissioned(st, k) ==
    st[k].self \in Safe /\ ~Simulated(st, k) => \E i \in 1..k : Origin(st, i, k)

Executing(f) ==
    f.kind = "exec" =>
        /\ f.self \in Safe /\ f.entry \in Entry /\ f.entry.safe = f.self
        /\ f.todo \in {<<>>, <<f.entry.tx.item>>}
        /\ f.guard = IF f.entry.module THEN "none" ELSE f.before.guard[f.self]
        /\ f.guard = "noDelegatecall" => MayDelegate(f.entry.tx.item)

Plain(f) == f.kind # "exec" => f.guard = "none"

\* Only Safes delegate.
Harmless(f) ==
    f.self \notin Safe => f.kind = "callOnly" \/ \A j \in DOMAIN f.todo : f.todo[j].operation = "call"

Interrupted(f) == ~f.failed /\ (f.kind = "exec" => f.todo = <<>>)

Approved(st, k) ==
    st[k].kind = "exec" /\ ~Simulated(st, k) =>
        \A o \in st[k].entry.by \cap Safe : Consents(st, k - 1, st[k].before, o, st[k].entry)

FrameInv(st, n, k) ==
    /\ k < n => Interrupted(st[k])
    /\ Executing(st[k]) /\ Plain(st[k]) /\ Harmless(st[k])
    /\ Commissioned(st, k) /\ Approved(st, k)
    /\ Claims(st, k - 1, k - 2, st[k].before)

Inv(st, w) ==
    /\ w \in World /\ st \in Seq(Call) /\ Len(st) <= MaxDepth
    /\ \A k \in 1..Len(st) : FrameInv(st, Len(st), k)
    /\ Claims(st, Len(st), Len(st), w)

IInv == Inv(stack, world)

-----------------------------------------------------------------------------
(* What was asked for stays asked for. *)

More(st, m, w, st2, m2, w2) ==
    \A s \in Safe : \A item \in Item :
        /\ Wants(st, m, w, s, item) => Wants(st2, m2, w2, s, item)
        /\ Demands(st, m, w, s, item) => Demands(st2, m2, w2, s, item)

OpenStays(st, m, st2, m2) ==
    \A i \in 1..m : Open(st[i]) =>
        i \in 1..m2 /\ Open(st2[i]) /\ st2[i].self = st[i].self /\ st2[i].entry = st[i].entry

LEMMA MoreOpen ==
    ASSUME NEW st, NEW m, NEW w, NEW st2, NEW m2, NEW w2,
           OpenStays(st, m, st2, m2), w.log \subseteq w2.log
    PROVE  More(st, m, w, st2, m2, w2)
<1> SUFFICES ASSUME NEW s \in Safe, NEW item \in Item
             PROVE  /\ Wants(st, m, w, s, item) => Wants(st2, m2, w2, s, item)
                    /\ Demands(st, m, w, s, item) => Demands(st2, m2, w2, s, item)
  BY DEF More
<1>1. \A i \in 1..m : Open(st[i]) =>
         i \in 1..m2 /\ Open(st2[i]) /\ st2[i].self = st[i].self /\ st2[i].entry = st[i].entry
  BY DEF OpenStays
<1>2. Wants(st, m, w, s, item) => Wants(st2, m2, w2, s, item)
  BY <1>1 DEF Wants
<1>3. Demands(st, m, w, s, item) => Demands(st2, m2, w2, s, item)
  BY <1>1 DEF Demands
<1> QED
  BY <1>2, <1>3

LEMMA MoreAsked ==
    ASSUME NEW st, NEW m, NEW w, NEW st2, NEW m2, NEW w2, More(st, m, w, st2, m2, w2), NEW s \in Safe
    PROVE  /\ \A h : AsksToSign(st, m, w, s, h) => AsksToSign(st2, m2, w2, s, h)
           /\ AsksToMigrate(st, m, w, s) => AsksToMigrate(st2, m2, w2, s)
           /\ AsksForGuard(st, m, w, s) => AsksForGuard(st2, m2, w2, s)
           /\ \A e : AsksToCall(st, m, w, s, e) => AsksToCall(st2, m2, w2, s, e)
           /\ \A h : DemandsToSign(st, m, w, s, h) => DemandsToSign(st2, m2, w2, s, h)
           /\ DemandsToMigrate(st, m, w, s) => DemandsToMigrate(st2, m2, w2, s)
           /\ \A t, h : AsksToApprove(st, m, w, s, t, h) => AsksToApprove(st2, m2, w2, s, t, h)
           /\ \A e : Consents(st, m, w, s, e) => Consents(st2, m2, w2, s, e)
<1>0. \A x \in Safe : \A item \in Item : Wants(st, m, w, x, item) => Wants(st2, m2, w2, x, item)
  BY DEF More
<1>1. \A item \in Item : /\ Wants(st, m, w, s, item) => Wants(st2, m2, w2, s, item)
                         /\ Demands(st, m, w, s, item) => Demands(st2, m2, w2, s, item)
  BY DEF More
<1>2. ASSUME NEW h PROVE AsksToSign(st, m, w, s, h) => AsksToSign(st2, m2, w2, s, h)
  BY <1>1 DEF AsksToSign
<1>3. ASSUME NEW e PROVE AsksToCall(st, m, w, s, e) => AsksToCall(st2, m2, w2, s, e)
  BY <1>1 DEF AsksToCall
<1>4. AsksToMigrate(st, m, w, s) => AsksToMigrate(st2, m2, w2, s)
  BY <1>1 DEF AsksToMigrate
<1>5. AsksForGuard(st, m, w, s) => AsksForGuard(st2, m2, w2, s)
  BY <1>1 DEF AsksForGuard
<1>6. ASSUME NEW h PROVE DemandsToSign(st, m, w, s, h) => DemandsToSign(st2, m2, w2, s, h)
  BY <1>1 DEF DemandsToSign
<1>7. DemandsToMigrate(st, m, w, s) => DemandsToMigrate(st2, m2, w2, s)
  BY <1>1 DEF DemandsToMigrate
<1>8. \A x \in Safe : \A t, h : AsksToApprove(st, m, w, x, t, h) => AsksToApprove(st2, m2, w2, x, t, h)
  BY <1>0 DEF AsksToApprove
<1>9. ASSUME NEW h
      PROVE  Signers(st, m, w, h) \subseteq Signers(st2, m2, w2, h)
             /\ Approvals(st, m, w, h) \subseteq Approvals(st2, m2, w2, h)
  <2>1. \A x \in Safe : AsksToSign(st, m, w, x, h) => AsksToSign(st2, m2, w2, x, h)
    BY <1>0 DEF AsksToSign
  <2>2. Approvals(st, m, w, h) \subseteq Approvals(st2, m2, w2, h)
    BY <1>8 DEF Approvals
  <2> QED
    BY <2>1, <2>2 DEF Signers
<1>10. ASSUME NEW e PROVE Consents(st, m, w, s, e) => Consents(st2, m2, w2, s, e)
  <2> DEFINE h == txHash(e.safe, e.tx, e.nonce)
  <2>1. Deepest(Agree(Signers(st, m, w, h), Approvals(st, m, w, h), h))
           \subseteq Deepest(Agree(Signers(st2, m2, w2, h), Approvals(st2, m2, w2, h), h))
    BY <1>9, AgreeWithin
  <2> QED
    BY <1>3, <1>8, <2>1 DEF Consents
<1> QED
  BY <1>2, <1>3, <1>4, <1>5, <1>6, <1>7, <1>8, <1>10

SameCalls(st, n, st2) == \A j \in 1..n : st2[j].before = st[j].before /\ st2[j].kind = st[j].kind

Unguarded(st, m, w, s) == Strict => w.guard[s] # "noDelegatecall" \/ AsksForGuard(st, m, w, s)

\* What is new in w2 was asked for.
Explained(st, n, m, w, w2) ==
    /\ w.log \subseteq w2.log
    /\ ~Simulated(st, n) =>
          /\ \A c \in w2.signed \ w.signed :
                /\ AsksToSign(st, m, w2, c[1], c[2])
                /\ Unguarded(st, m, w2, c[1]) \/ DemandsToSign(st, m, w2, c[1], c[2])
          /\ \A c \in w2.approved \ w.approved : AsksToApprove(st, m, w2, c[2], c[1], c[3])
          /\ \A s \in w2.migrated \ w.migrated :
                /\ AsksToMigrate(st, m, w2, s)
                /\ Unguarded(st, m, w2, s) \/ DemandsToMigrate(st, m, w2, s)
          /\ \A e \in w2.log \ w.log : \A o \in e.by \cap Safe : Consents(st, m, w2, o, e)
          /\ \A s \in Safe : w2.guard[s] = w.guard[s] \/ AsksForGuard(st, m, w2, s)

LEMMA NothingNew ==
    ASSUME NEW st, NEW n, NEW m, NEW w, NEW w2,
           w2.signed = w.signed, w2.approved = w.approved, w2.migrated = w.migrated,
           w2.guard = w.guard, w2.log = w.log
    PROVE  Explained(st, n, m, w, w2)
  BY DEF Explained

LEMMA ClaimsMove ==
    ASSUME NEW st, NEW n, NEW m, NEW w \in World, NEW st2, NEW m2, NEW w2 \in World,
           Claims(st, n, m, w), SameCalls(st, n, st2), More(st, m, w, st2, m2, w2),
           Explained(st2, n, m2, w, w2)
    PROVE  Claims(st2, n, m2, w2)
<1>1. Simulated(st2, n) <=> Simulated(st, n)
  BY DEF SameCalls, Simulated
<1>2. LogGrown(st2, n, w2)
  <2> SUFFICES ASSUME NEW j \in 1..n PROVE st2[j].before.log \subseteq w2.log
    BY DEF LogGrown
  <2>1. st[j].before.log \subseteq w.log /\ w.log \subseteq w2.log
    BY DEF Claims, LogGrown, Explained
  <2> QED
    BY <2>1 DEF SameCalls
<1>3. ASSUME ~Simulated(st2, n)
      PROVE  /\ SignedAsked(st2, m2, w2) /\ ApprovedAsked(st2, m2, w2) /\ MigratedAsked(st2, m2, w2)
             /\ LogConsented(st2, m2, w2) /\ Kept(st2, m2, w2) /\ GuardsAsked(st2, n, m2, w2)
  <2>1. /\ SignedAsked(st, m, w) /\ ApprovedAsked(st, m, w) /\ MigratedAsked(st, m, w)
        /\ LogConsented(st, m, w) /\ Kept(st, m, w) /\ GuardsAsked(st, n, m, w)
    BY <1>1, <1>3 DEF Claims
  <2>2. /\ \A c \in w2.signed \ w.signed :
              /\ AsksToSign(st2, m2, w2, c[1], c[2])
              /\ Unguarded(st2, m2, w2, c[1]) \/ DemandsToSign(st2, m2, w2, c[1], c[2])
        /\ \A c \in w2.approved \ w.approved : AsksToApprove(st2, m2, w2, c[2], c[1], c[3])
        /\ \A s \in w2.migrated \ w.migrated :
              /\ AsksToMigrate(st2, m2, w2, s)
              /\ Unguarded(st2, m2, w2, s) \/ DemandsToMigrate(st2, m2, w2, s)
        /\ \A e \in w2.log \ w.log : \A o \in e.by \cap Safe : Consents(st2, m2, w2, o, e)
        /\ \A s \in Safe : w2.guard[s] = w.guard[s] \/ AsksForGuard(st2, m2, w2, s)
    BY <1>3 DEF Explained
  <2>3. SignedAsked(st2, m2, w2)
    <3> SUFFICES ASSUME NEW c \in w2.signed PROVE AsksToSign(st2, m2, w2, c[1], c[2])
      BY DEF SignedAsked
    <3>1. c[1] \in Safe
      BY DEF World
    <3> QED
      BY <2>1, <2>2, <3>1, MoreAsked DEF SignedAsked
  <2>4. MigratedAsked(st2, m2, w2)
    <3> SUFFICES ASSUME NEW s \in w2.migrated PROVE AsksToMigrate(st2, m2, w2, s)
      BY DEF MigratedAsked
    <3>1. s \in Safe
      BY DEF World
    <3> QED
      BY <2>1, <2>2, <3>1, MoreAsked DEF MigratedAsked
  <2>5. LogConsented(st2, m2, w2)
    <3> SUFFICES ASSUME NEW e \in w2.log, NEW o \in e.by \cap Safe PROVE Consents(st2, m2, w2, o, e)
      BY DEF LogConsented
    <3> QED
      BY <2>1, <2>2, MoreAsked DEF LogConsented
  <2>6. Kept(st2, m2, w2)
    <3> SUFFICES ASSUME Strict, NEW s \in Safe, w2.guard[s] = "noDelegatecall", ~AsksForGuard(st2, m2, w2, s)
                 PROVE  Clean(st2, m2, w2, s)
      BY DEF Kept
    <3>1. w.guard[s] = "noDelegatecall" /\ ~AsksForGuard(st, m, w, s)
      BY <2>2, MoreAsked
    <3>2. Clean(st, m, w, s)
      BY <2>1, <3>1 DEF Kept
    <3>3. ~Unguarded(st2, m2, w2, s)
      BY DEF Unguarded
    <3>4. /\ \A h : DemandsToSign(st, m, w, s, h) => DemandsToSign(st2, m2, w2, s, h)
          /\ DemandsToMigrate(st, m, w, s) => DemandsToMigrate(st2, m2, w2, s)
      BY MoreAsked
    <3>5. s \in w2.migrated => DemandsToMigrate(st2, m2, w2, s)
      BY <2>2, <3>2, <3>3, <3>4 DEF Clean
    <3>6. \A c \in w2.signed : c[1] = s => DemandsToSign(st2, m2, w2, s, c[2])
      BY <2>2, <3>2, <3>3, <3>4 DEF Clean
    <3> QED
      BY <3>5, <3>6 DEF Clean
  <2>7. GuardsAsked(st2, n, m2, w2)
    <3> SUFFICES ASSUME NEW j \in 1..n, NEW s \in Safe, ~AsksForGuard(st2, m2, w2, s)
                 PROVE  w2.guard[s] = st2[j].before.guard[s]
      BY DEF GuardsAsked
    <3>1. w2.guard[s] = w.guard[s] /\ ~AsksForGuard(st, m, w, s)
      BY <2>2, MoreAsked
    <3> QED
      BY <2>1, <3>1 DEF GuardsAsked, SameCalls
  <2>8. ApprovedAsked(st2, m2, w2)
    <3> SUFFICES ASSUME NEW c \in w2.approved PROVE AsksToApprove(st2, m2, w2, c[2], c[1], c[3])
      BY DEF ApprovedAsked
    <3>1. c[2] \in Safe
      BY DEF World
    <3>2. \A t, h : AsksToApprove(st, m, w, c[2], t, h) => AsksToApprove(st2, m2, w2, c[2], t, h)
      BY <3>1, MoreAsked
    <3> QED
      BY <2>1, <2>2, <3>2 DEF ApprovedAsked
  <2> QED
    BY <2>3, <2>4, <2>5, <2>6, <2>7, <2>8
<1> QED
  BY <1>2, <1>3 DEF Claims

Same(st, n, st2) == \A j \in 1..n : st2[j] = st[j]

LEMMA SameMore ==
    ASSUME NEW st, NEW m, NEW st2, NEW w, Same(st, m, st2)
    PROVE  More(st, m, w, st2, m, w)
<1>1. OpenStays(st, m, st2, m)
  BY DEF Same, OpenStays
<1> QED
  BY <1>1, MoreOpen

\* g is the call f, which may have made some of its calls or failed.
Still(f, g) ==
    /\ g \in Call
    /\ g.kind = f.kind /\ g.self = f.self /\ g.before = f.before /\ g.entry = f.entry /\ g.guard = f.guard
    /\ \A j \in DOMAIN g.todo : \E l \in DOMAIN f.todo : g.todo[j] = f.todo[l]
    /\ f.kind = "exec" => g.todo \in {<<>>, f.todo}

LEMMA StillSame ==
    ASSUME NEW f \in Call
    PROVE  Still(f, f)
  BY DEF Still

\* What holds of a call depends on the calls up to it.
LEMMA FrameMove ==
    ASSUME NEW st \in Seq(Call), NEW n \in Nat, NEW k \in 1..Len(st), FrameInv(st, n, k),
           NEW st2, NEW n2 \in Nat, Same(st, k - 1, st2), Still(st[k], st2[k]),
           k < n2 => Interrupted(st2[k])
    PROVE  FrameInv(st2, n2, k)
<1>1. st[k] \in Call /\ k \in Nat
  OBVIOUS
<1>2. st[k].before \in World /\ st2[k].before = st[k].before
  BY <1>1 DEF Call, Still
<1>3. \A i \in 1..k : st2[i].kind = st[i].kind
  BY DEF Same, Still
<1>4. Simulated(st2, k) <=> Simulated(st, k)
  BY <1>3 DEF Simulated
<1>5. Executing(st2[k])
  BY DEF FrameInv, Executing, Still
<1>6. Plain(st2[k]) /\ Harmless(st2[k])
  BY DEF FrameInv, Plain, Harmless, Still
<1>7. Commissioned(st2, k)
  <2> SUFFICES ASSUME st2[k].self \in Safe, ~Simulated(st2, k)
               PROVE  \E i \in 1..k : Origin(st2, i, k)
    BY DEF Commissioned
  <2>1. PICK i \in 1..k : Origin(st, i, k)
    BY <1>4 DEF FrameInv, Commissioned, Still
  <2>2. st2[i].kind = st[i].kind /\ st2[i].self = st[i].self /\ st2[i].entry = st[i].entry
        /\ st2[i].guard = st[i].guard
    BY <1>1 DEF Same, Still
  <2>3. \A j \in DOMAIN st2[k].todo : Deep(st[i].entry.tx, k - i, st2[k].todo[j])
    BY <2>1 DEF Origin, Still
  <2>4. Origin(st2, i, k)
    BY <2>1, <2>2, <2>3 DEF Origin, Still
  <2> QED
    BY <2>4
<1>8. More(st, k - 1, st[k].before, st2, k - 1, st[k].before)
  BY SameMore
<1>9. Approved(st2, k)
  <2> SUFFICES ASSUME st2[k].kind = "exec", ~Simulated(st2, k), NEW o \in st2[k].entry.by \cap Safe
               PROVE  Consents(st2, k - 1, st2[k].before, o, st2[k].entry)
    BY DEF Approved
  <2>1. st[k].kind = "exec" /\ st2[k].entry = st[k].entry
    BY DEF Still
  <2>2. Consents(st, k - 1, st[k].before, o, st[k].entry)
    BY <1>4, <2>1 DEF FrameInv, Approved
  <2> QED
    BY <1>2, <1>8, <2>1, <2>2, MoreAsked
<1>10. Claims(st2, k - 1, k - 2, st2[k].before)
  <2>1. Same(st, k - 2, st2)
    BY <1>1 DEF Same
  <2>2. SameCalls(st, k - 1, st2)
    BY DEF Same, SameCalls
  <2>3. More(st, k - 2, st[k].before, st2, k - 2, st[k].before)
    BY <2>1, SameMore
  <2>4. Claims(st, k - 1, k - 2, st[k].before)
    BY DEF FrameInv
  <2>5. Explained(st2, k - 1, k - 2, st[k].before, st[k].before)
    BY NothingNew
  <2> QED
    BY <1>2, <2>2, <2>3, <2>4, <2>5, ClaimsMove
<1> QED
  BY <1>5, <1>6, <1>7, <1>9, <1>10 DEF FrameInv

-----------------------------------------------------------------------------
(* The ends of calls *)

LEMMA StackFacts ==
    ASSUME IInv
    PROVE  /\ world \in World /\ stack \in Seq(Call) /\ Len(stack) \in Nat /\ Len(stack) <= MaxDepth
           /\ \A k \in 1..Len(stack) : stack[k] \in Call /\ FrameInv(stack, Len(stack), k)
           /\ Claims(stack, Len(stack), Len(stack), world)
           /\ (stack = <<>>) <=> (Len(stack) = 0)
  BY DEF IInv, Inv

LEMMA RestFacts ==
    ASSUME NEW S, NEW q \in Seq(S), Len(q) # 0, NEW r, r = SubSeq(q, 1, Len(q) - 1)
    PROVE  r \in Seq(S) /\ Len(r) = Len(q) - 1 /\ \A k \in 1..(Len(q) - 1) : r[k] = q[k]
<1> DEFINE n == Len(q) - 1
<1>1. n \in Nat /\ n <= Len(q)
  OBVIOUS
<1>2. \A k \in 1..n : q[k] \in S
  BY <1>1
<1>3. /\ r \in Seq(S)
      /\ Len(r) = IF 1 <= n THEN n - 1 + 1 ELSE 0
      /\ \A k \in 1..(n - 1 + 1) : r[k] = q[1 + k - 1]
  BY <1>1, <1>2, SubSeqProperties
<1> HIDE DEF n
<1>4. \A m \in Nat : (IF 1 <= m THEN m - 1 + 1 ELSE 0) = m /\ m - 1 + 1 = m
  OBVIOUS
<1>5. Len(r) = n /\ n - 1 + 1 = n
  BY <1>1, <1>3, <1>4
<1>6. \A k \in 1..n : 1 + k - 1 = k
  BY <1>1
<1> QED
  BY <1>3, <1>5, <1>6 DEF n

\* What is under the last call stays as it is, but for its failure.
LEMMA UnderTop ==
    ASSUME IInv, stack # <<>>, NEW st \in Seq(Call), Len(st) = Len(stack) - 1,
           \A k \in 1..(Len(stack) - 2) : st[k] = stack[k],
           Len(stack) > 1 => Still(stack[Len(stack) - 1], st[Len(stack) - 1])
    PROVE  /\ \A k \in 1..Len(st) : FrameInv(st, Len(st), k)
           /\ SameCalls(stack, Len(st), st)
           /\ OpenStays(stack, Len(stack) - 2, st, Len(st))
<1> DEFINE n == Len(stack)
<1>1. n \in Nat /\ n # 0 /\ stack \in Seq(Call) /\ \A k \in 1..n : stack[k] \in Call /\ FrameInv(stack, n, k)
  BY StackFacts
<1>2. ASSUME NEW k \in 1..(n - 1)
      PROVE  FrameInv(st, n - 1, k)
  <2>1. Same(stack, k - 1, st)
    BY <1>1 DEF Same
  <2>2. k \in 1..n /\ k < n
    BY <1>1
  <2>3. Still(stack[k], st[k])
    <3>1. CASE k = n - 1
      BY <1>1, <3>1
    <3>2. CASE k # n - 1
      <4>1. k \in 1..(n - 2)
        BY <1>1, <3>2
      <4> QED
        BY <1>1, <2>2, <4>1, StillSame
    <3> QED
      BY <3>1, <3>2
  <2>4. k < n - 1 => Interrupted(st[k])
    <3>1. Interrupted(stack[k])
      BY <1>1, <2>2 DEF FrameInv
    <3> QED
      BY <1>1, <3>1
  <2> QED
    BY <1>1, <2>1, <2>2, <2>3, <2>4, FrameMove
<1>3. SameCalls(stack, n - 1, st)
  <2> SUFFICES ASSUME NEW j \in 1..(n - 1)
               PROVE  st[j].before = stack[j].before /\ st[j].kind = stack[j].kind
    BY DEF SameCalls
  <2>1. CASE j = n - 1
    BY <1>1, <2>1 DEF Still
  <2>2. CASE j # n - 1
    BY <1>1, <2>2
  <2> QED
    BY <2>1, <2>2
<1>4. OpenStays(stack, n - 2, st, n - 1)
  <2> SUFFICES ASSUME NEW i \in 1..(n - 2) PROVE i \in 1..(n - 1) /\ st[i] = stack[i]
    BY DEF OpenStays
  <2> QED
    BY <1>1
<1> QED
  BY <1>1, <1>2, <1>3, <1>4

LEMMA RevertTopIInv ==
    ASSUME IInv, stack # <<>>, RevertTop
    PROVE  IInv'
<1> DEFINE n == Len(stack)
<1>1. n \in Nat /\ n # 0 /\ n <= MaxDepth /\ stack \in Seq(Call) /\ MaxDepth \in Nat
  BY StackFacts, NetworkAssumption
<1>2. Top \in Call /\ FrameInv(stack, n, n) /\ Top = stack[n]
  BY <1>1, StackFacts DEF Top
<1>3. Rest \in Seq(Call) /\ Len(Rest) = n - 1 /\ \A k \in 1..(n - 1) : Rest[k] = stack[k]
  BY <1>1, RestFacts DEF Rest
<1>4. /\ stack' \in Seq(Call) /\ Len(stack') = n - 1
      /\ \A k \in 1..(n - 2) : stack'[k] = stack[k]
      /\ n > 1 => Still(stack[n - 1], stack'[n - 1])
  <2>1. CASE n = 1
    BY <1>1, <1>3, <2>1 DEF RevertTop
  <2>2. CASE n > 1
    <3>1. PICK f : f = [Rest[n - 1] EXCEPT !.failed = TRUE]
      OBVIOUS
    <3>2. Rest[n - 1] \in Call /\ Rest[n - 1] = stack[n - 1]
      BY <1>1, <1>3, <2>2
    <3>3. f \in Call /\ Still(stack[n - 1], f)
      BY <3>1, <3>2 DEF Call, Still
    <3>4. stack' = [Rest EXCEPT ![n - 1] = f]
      BY <1>1, <1>3, <2>2, <3>1 DEF RevertTop
    <3> QED
      BY <1>1, <1>3, <2>2, <3>3, <3>4
  <2> QED
    BY <1>1, <2>1, <2>2
<1>5. /\ \A k \in 1..(n - 1) : FrameInv(stack', n - 1, k)
      /\ SameCalls(stack, n - 1, stack')
      /\ OpenStays(stack, n - 2, stack', n - 1)
  BY <1>4, UnderTop
<1>6. world' = Top.before /\ Top.before \in World
  BY <1>2 DEF RevertTop, Call
<1>7. Claims(stack, n - 1, n - 2, Top.before)
  BY <1>2 DEF FrameInv
<1>8. More(stack, n - 2, Top.before, stack', n - 1, Top.before)
  BY <1>5, MoreOpen
<1>9. Claims(stack', n - 1, n - 1, Top.before)
  BY <1>5, <1>6, <1>7, <1>8, NothingNew, ClaimsMove
<1> QED
  BY <1>1, <1>4, <1>5, <1>6, <1>9 DEF IInv, Inv

\* What is claimed under n calls is claimed without the last of them.
LEMMA ClaimsDrop ==
    ASSUME NEW st, NEW n \in Nat, n # 0, NEW m, NEW w, Claims(st, n, m, w), st[n].kind # "simulation"
    PROVE  Claims(st, n - 1, m, w)
<1>1. Simulated(st, n) => Simulated(st, n - 1)
  BY DEF Simulated
<1>2. LogGrown(st, n - 1, w)
  BY DEF Claims, LogGrown
<1>3. GuardsAsked(st, n, m, w) => GuardsAsked(st, n - 1, m, w)
  BY DEF GuardsAsked
<1> QED
  BY <1>1, <1>2, <1>3 DEF Claims

\* The call ends and its caller goes on in a world that it has left.
LEMMA LeaveIInv ==
    ASSUME IInv, stack # <<>>, Top.kind # "simulation", stack' = Rest, world' \in World,
           Explained(stack', Len(stack) - 1, Len(stack) - 1, world, world'),
           More(stack, Len(stack), world, stack', Len(stack) - 1, world')
    PROVE  IInv'
<1> DEFINE n == Len(stack)
<1>1. n \in Nat /\ n # 0 /\ n <= MaxDepth /\ stack \in Seq(Call) /\ MaxDepth \in Nat
  BY StackFacts, NetworkAssumption
<1>2. stack' \in Seq(Call) /\ Len(stack') = n - 1 /\ \A k \in 1..(n - 1) : stack'[k] = stack[k]
  BY <1>1, RestFacts DEF Rest
<1>3. n > 1 => Still(stack[n - 1], stack'[n - 1])
  <2> SUFFICES ASSUME n > 1 PROVE Still(stack[n - 1], stack'[n - 1])
    OBVIOUS
  <2>1. n - 1 \in 1..n /\ n - 1 \in 1..(n - 1)
    BY <1>1
  <2>2. stack[n - 1] \in Call
    BY <1>1, <2>1
  <2> QED
    BY <1>2, <2>1, <2>2, StillSame
<1>4. /\ \A k \in 1..(n - 1) : FrameInv(stack', n - 1, k)
      /\ SameCalls(stack, n - 1, stack')
  BY <1>1, <1>2, <1>3, UnderTop
<1>5. Claims(stack, n - 1, n, world)
  BY <1>1, StackFacts, ClaimsDrop DEF Top
<1>6. Claims(stack', n - 1, n - 1, world')
  BY <1>4, <1>5, StackFacts, ClaimsMove
<1> QED
  BY <1>1, <1>2, <1>4, <1>6 DEF IInv, Inv

LEMMA ReturnIInv ==
    ASSUME IInv, stack # <<>>, Top.kind \in {"batch", "callOnly", "accessor", "handler"}, Return
    PROVE  IInv'
<1> DEFINE n == Len(stack)
<1>1. n \in Nat /\ n # 0 /\ world \in World /\ stack \in Seq(Call)
  BY StackFacts
<1>2. stack' = Rest /\ world' = world
  BY DEF Return
<1>3. \A k \in 1..(n - 1) : stack'[k] = stack[k]
  BY <1>1, <1>2, RestFacts DEF Rest
<1>4. OpenStays(stack, n, stack', n - 1)
  <2> SUFFICES ASSUME NEW i \in 1..n, Open(stack[i]) PROVE i \in 1..(n - 1) /\ stack'[i] = stack[i]
    BY DEF OpenStays
  <2>1. i # n
    BY DEF Open, Top
  <2> QED
    BY <1>1, <1>3, <2>1
<1>5. More(stack, n, world, stack', n - 1, world')
  BY <1>2, <1>4, MoreOpen
<1> QED
  BY <1>1, <1>2, <1>5, NothingNew, LeaveIInv

LEMMA ExecEndsIInv ==
    ASSUME IInv, ExecEnds
    PROVE  IInv'
<1> DEFINE n == Len(stack)
<1>1. n \in Nat /\ n # 0 /\ world \in World /\ stack \in Seq(Call) /\ stack # <<>>
  BY StackFacts DEF ExecEnds, Ending
<1>2. Top \in Call /\ FrameInv(stack, n, n) /\ Top = stack[n] /\ Top.kind = "exec"
  BY <1>1, StackFacts DEF Top, ExecEnds, Ending
<1>3. CASE RevertTop
  BY <1>1, <1>3, RevertTopIInv
<1>4. CASE ~(Top.failed /\ ~Top.entry.tx.tolerant)
  <2>1. PICK e : e = [Top.entry EXCEPT !.ok = ~Top.failed]
    OBVIOUS
  <2>2. Top.entry \in Entry /\ Top.entry.safe = Top.self /\ Top.failed \in BOOLEAN
    BY <1>2 DEF FrameInv, Executing, Call
  <2>3. /\ e \in Entry /\ e.safe = Top.self /\ e.tx = Top.entry.tx
        /\ e.nonce = Top.entry.nonce /\ e.by = Top.entry.by /\ e.module = Top.entry.module
    BY <2>1, <2>2 DEF Entry
  <2>4. ~Top.failed => e.ok
    BY <2>1, <2>2, Zenon DEF Entry
  <2>5. PICK l : l = Left(Top.guard, world.guards, Top.entry.tx.item, Top.entry.nonce)
    OBVIOUS
  <2>6. l \in [active : BOOLEAN, txNonces : SUBSET (Item \X Nat)]
    BY <1>1, <2>5 DEF World, Left, Lower, Erase
  <2>7. world' = [world EXCEPT !.guards = l, !.log = world.log \cup {e}] /\ stack' = Rest
    BY <1>4, <2>1, <2>5 DEF ExecEnds
  <2>8. /\ world' \in World /\ world'.log = world.log \cup {e}
        /\ world'.signed = world.signed /\ world'.approved = world.approved
        /\ world'.migrated = world.migrated /\ world'.guard = world.guard
    BY <1>1, <2>3, <2>6, <2>7 DEF World
  <2>9. \A k \in 1..(n - 1) : stack'[k] = stack[k]
    BY <1>1, <2>7, RestFacts DEF Rest
  <2>10. More(stack, n, world, stack', n - 1, world')
    <3> SUFFICES ASSUME NEW s \in Safe, NEW item \in Item
                 PROVE  /\ Wants(stack, n, world, s, item) => Wants(stack', n - 1, world', s, item)
                        /\ Demands(stack, n, world, s, item) => Demands(stack', n - 1, world', s, item)
      BY DEF More
    <3>1. ASSUME NEW i \in 1..n, Open(stack[i]), stack[i].self = s, HasPart(stack[i].entry.tx, item)
          PROVE  \/ /\ e \in world'.log /\ e.safe = s /\ e.ok /\ HasPart(e.tx, item)
                    /\ e.module = stack[i].entry.module
                 \/ i \in 1..(n - 1) /\ stack'[i] = stack[i]
      <4>1. CASE i = n
        BY <1>2, <2>3, <2>4, <2>8, <3>1, <4>1 DEF Open
      <4>2. CASE i # n
        BY <1>1, <2>9, <4>2
      <4> QED
        BY <4>1, <4>2
    <3>2. Wants(stack, n, world, s, item) => Wants(stack', n - 1, world', s, item)
      BY <2>8, <3>1 DEF Wants
    <3>3. Demands(stack, n, world, s, item) => Demands(stack', n - 1, world', s, item)
      BY <2>8, <3>1 DEF Demands
    <3> QED
      BY <3>2, <3>3
  <2>11. Explained(stack', n - 1, n - 1, world, world')
    <3>1. ASSUME ~Simulated(stack', n - 1), NEW o \in e.by \cap Safe
          PROVE  Consents(stack', n - 1, world', o, e)
      <4>1. ~Simulated(stack, n)
        BY <1>1, <1>2, <2>9, <3>1 DEF Simulated
      <4>2. Consents(stack, n - 1, Top.before, o, Top.entry)
        BY <1>2, <2>3, <4>1 DEF FrameInv, Approved
      <4>3. OpenStays(stack, n - 1, stack', n - 1)
        BY <2>9 DEF OpenStays
      <4>4. Claims(stack, n, n, world)
        BY StackFacts
      <4>5. Top.before.log \subseteq world'.log
        BY <1>1, <1>2, <2>8, <4>4 DEF Claims, LogGrown
      <4>6. More(stack, n - 1, Top.before, stack', n - 1, world')
        BY <4>3, <4>5, MoreOpen
      <4>7. Consents(stack', n - 1, world', o, Top.entry)
        BY <4>2, <4>6, MoreAsked
      <4> QED
        BY <2>2, <2>3, <4>7 DEF Consents, AsksToCall
    <3> QED
      BY <2>8, <3>1 DEF Explained
  <2> QED
    BY <1>1, <1>2, <2>7, <2>8, <2>10, <2>11, LeaveIInv
<1> QED
  BY <1>3, <1>4 DEF ExecEnds

LEMMA EndsIInv ==
    ASSUME IInv, BatchEnds \/ AccessorEnds \/ HandlerEnds \/ SimulationEnds \/ OutOfGas
    PROVE  IInv'
<1>1. CASE BatchEnds
  BY <1>1, RevertTopIInv, ReturnIInv DEF BatchEnds, Ending
<1>2. CASE AccessorEnds
  BY <1>2, ReturnIInv DEF AccessorEnds, Ending
<1>3. CASE SimulationEnds
  BY <1>3, RevertTopIInv DEF SimulationEnds, Ending
<1>4. CASE OutOfGas
  BY <1>4, RevertTopIInv DEF OutOfGas
<1>5. CASE HandlerEnds
  BY <1>5, RevertTopIInv, ReturnIInv DEF HandlerEnds, Ending
<1> QED
  BY <1>1, <1>2, <1>3, <1>4, <1>5

-----------------------------------------------------------------------------
(* The calls that are made *)

Performed(item) ==
    \/ stack = <<>> /\ item \in Outside
    \/ Running /\ item = Head(Top.todo) /\ ~TooDeep /\ ~Refused(item)

LEMMA TailOf ==
    ASSUME NEW S, NEW q \in Seq(S), q # <<>>
    PROVE  /\ Head(q) \in S /\ Tail(q) \in Seq(S) /\ 1 \in DOMAIN q /\ Head(q) = q[1]
           /\ \A j \in DOMAIN Tail(q) : j + 1 \in DOMAIN q /\ Tail(q)[j] = q[j + 1]
  OBVIOUS

LEMMA TailOfOne ==
    ASSUME NEW x
    PROVE  Tail(<<x>>) = <<>> /\ Head(<<x>>) = x
  OBVIOUS

LEMMA ContinuedFacts ==
    ASSUME IInv, stack = <<>> \/ Running
    PROVE  /\ Continued \in Seq(Call) /\ Len(Continued) = Len(stack)
           /\ Same(stack, Len(stack) - 1, Continued)
           /\ stack # <<>> =>
                 /\ Continued[Len(stack)] = [stack[Len(stack)] EXCEPT !.todo = Tail(Top.todo)]
                 /\ Still(stack[Len(stack)], Continued[Len(stack)])
                 /\ Interrupted(Continued[Len(stack)])
                 /\ ~Open(stack[Len(stack)])
<1> DEFINE n == Len(stack)
<1>1. n \in Nat /\ stack \in Seq(Call) /\ ((stack = <<>>) <=> (n = 0))
  BY StackFacts
<1>2. CASE stack = <<>>
  BY <1>1, <1>2 DEF Continued, Same
<1>3. CASE stack # <<>>
  <2>1. Top = stack[n] /\ Top \in Call /\ FrameInv(stack, n, n) /\ ~Top.failed /\ Top.todo # <<>>
    BY <1>1, <1>3, StackFacts DEF Top, Running
  <2>2. PICK g : g = [stack[n] EXCEPT !.todo = Tail(Top.todo)]
    OBVIOUS
  <2>3. Continued = [stack EXCEPT ![n] = g]
    BY <1>3, <2>1, <2>2 DEF Continued
  <2>4. Top.todo \in Seq(Item)
    BY <2>1 DEF Call
  <2>5. Tail(Top.todo) \in Seq(Item)
        /\ \A j \in DOMAIN Tail(Top.todo) : \E l \in DOMAIN Top.todo : Tail(Top.todo)[j] = Top.todo[l]
    BY <2>1, <2>4, TailOf
  <2>6. Top.kind = "exec" => Tail(Top.todo) = <<>>
    BY <2>1, TailOfOne DEF FrameInv, Executing
  <2>7. /\ g \in Call /\ g.kind = Top.kind /\ g.self = Top.self /\ g.before = Top.before
        /\ g.entry = Top.entry /\ g.guard = Top.guard /\ g.failed = Top.failed
        /\ g.todo = Tail(Top.todo)
    BY <2>1, <2>2, <2>5 DEF Call
  <2>8. Still(stack[n], g) /\ Interrupted(g) /\ ~Open(stack[n])
    BY <2>1, <2>5, <2>6, <2>7 DEF Still, Interrupted, Open
  <2>9. Continued \in Seq(Call) /\ Len(Continued) = n /\ Same(stack, n - 1, Continued) /\ Continued[n] = g
    BY <1>1, <1>3, <2>3, <2>7 DEF Same
  <2> QED
    BY <1>3, <2>2, <2>8, <2>9
<1> QED
  BY <1>2, <1>3

\* All calls in progress wait for the one that is made next.
LEMMA WaitingFrames ==
    ASSUME IInv, stack = <<>> \/ Running, NEW k \in 1..Len(stack)
    PROVE  /\ \A n \in Nat : FrameInv(Continued, n, k)
           /\ Interrupted(Continued[k])
           /\ Continued[k].kind = stack[k].kind /\ Continued[k].before = stack[k].before
           /\ Continued[k].self = stack[k].self
<1> DEFINE n == Len(stack)
<1>1. n \in Nat /\ stack \in Seq(Call) /\ stack # <<>> /\ FrameInv(stack, n, k) /\ stack[k] \in Call
  BY StackFacts
<1>2. Still(stack[k], Continued[k]) /\ Interrupted(Continued[k])
  <2>1. CASE k = n
    BY <1>1, <2>1, ContinuedFacts
  <2>2. CASE k # n
    <3>1. k \in 1..(n - 1) /\ k < n
      BY <1>1, <2>2
    <3>2. Continued[k] = stack[k]
      BY <3>1, ContinuedFacts DEF Same
    <3> QED
      BY <1>1, <3>1, <3>2, StillSame DEF FrameInv
  <2> QED
    BY <2>1, <2>2
<1>3. Same(stack, k - 1, Continued)
  BY <1>1, ContinuedFacts DEF Same
<1>4. \A m \in Nat : FrameInv(Continued, m, k)
  BY <1>1, <1>2, <1>3, FrameMove
<1> QED
  BY <1>2, <1>4 DEF Still

LEMMA WaitingClaims ==
    ASSUME IInv, stack = <<>> \/ Running
    PROVE  /\ Claims(Continued, Len(stack), Len(stack) - 1, world)
           /\ Claims(Continued, Len(stack), Len(stack), world)
           /\ SameCalls(stack, Len(stack), Continued)
<1> DEFINE n == Len(stack)
<1>1. n \in Nat /\ world \in World /\ Claims(stack, n, n, world)
  BY StackFacts
<1>2. SameCalls(stack, n, Continued)
  BY WaitingFrames DEF SameCalls
<1>3. OpenStays(stack, n, Continued, n - 1)
  <2> SUFFICES ASSUME NEW i \in 1..n, Open(stack[i]) PROVE i \in 1..(n - 1) /\ Continued[i] = stack[i]
    BY DEF OpenStays
  <2>1. stack # <<>> /\ i # n
    BY StackFacts, ContinuedFacts
  <2>2. i \in 1..(n - 1)
    BY <1>1, <2>1
  <2> QED
    BY <2>2, ContinuedFacts DEF Same
<1>4. OpenStays(stack, n, Continued, n)
  BY <1>1, <1>3 DEF OpenStays
<1>5. Claims(Continued, n, n - 1, world)
  BY <1>1, <1>2, <1>3, MoreOpen, NothingNew, ClaimsMove
<1>6. Claims(Continued, n, n, world)
  BY <1>1, <1>2, <1>4, MoreOpen, NothingNew, ClaimsMove
<1> QED
  BY <1>2, <1>5, <1>6

LEMMA FailIInv ==
    ASSUME IInv, stack = <<>> \/ Running, Fail
    PROVE  IInv'
<1> DEFINE n == Len(stack)
<1>1. n \in Nat /\ n <= MaxDepth /\ world \in World /\ stack \in Seq(Call) /\ Claims(stack, n, n, world)
  BY StackFacts
<1>2. CASE stack = <<>>
  BY <1>2 DEF Fail, IInv, Inv
<1>3. CASE stack # <<>>
  <2>1. n # 0 /\ n \in 1..n /\ stack[n] \in Call
    BY <1>1, <1>3
  <2>2. /\ Continued \in Seq(Call) /\ Len(Continued) = n /\ Continued[n] \in Call
        /\ Same(stack, n - 1, Continued) /\ Still(stack[n], Continued[n]) /\ ~Open(stack[n])
    BY <1>3, <2>1, ContinuedFacts DEF Still
  <2>3. PICK g : g = [Continued[n] EXCEPT !.failed = TRUE]
    OBVIOUS
  <2>4. g \in Call /\ Still(stack[n], g)
    BY <2>2, <2>3 DEF Call, Still
  <2>5. stack' = [Continued EXCEPT ![n] = g] /\ world' = world
    BY <1>3, <2>3 DEF Fail
  <2>6. stack' \in Seq(Call) /\ Len(stack') = n /\ stack'[n] = g /\ Same(stack, n - 1, stack')
    BY <2>1, <2>2, <2>4, <2>5 DEF Same
  <2>7. ASSUME NEW k \in 1..n
        PROVE  FrameInv(stack', n, k)
    <3>1. FrameInv(stack, n, k) /\ stack[k] \in Call
      BY StackFacts
    <3>2. CASE k = n
      BY <1>1, <2>4, <2>6, <3>1, <3>2, FrameMove
    <3>3. CASE k # n
      <4>1. k < n /\ k \in 1..(n - 1)
        BY <1>1, <3>3
      <4>2. stack'[k] = stack[k] /\ Same(stack, k - 1, stack')
        BY <1>1, <2>6, <4>1 DEF Same
      <4>3. Interrupted(stack'[k])
        BY <3>1, <4>1, <4>2 DEF FrameInv
      <4> QED
        BY <1>1, <3>1, <4>2, <4>3, StillSame, FrameMove
    <3> QED
      BY <3>2, <3>3
  <2>8. SameCalls(stack, n, stack')
    <3> SUFFICES ASSUME NEW j \in 1..n
                 PROVE  stack'[j].before = stack[j].before /\ stack'[j].kind = stack[j].kind
      BY DEF SameCalls
    <3>1. CASE j = n
      BY <2>4, <2>6, <3>1 DEF Still
    <3>2. CASE j # n
      BY <1>1, <2>6, <3>2 DEF Same
    <3> QED
      BY <3>1, <3>2
  <2>9. OpenStays(stack, n, stack', n)
    BY <1>1, <2>2, <2>6 DEF OpenStays, Same
  <2>10. Claims(stack', n, n, world')
    BY <1>1, <2>5, <2>8, <2>9, MoreOpen, NothingNew, ClaimsMove
  <2> QED
    BY <1>1, <2>5, <2>6, <2>7, <2>10 DEF IInv, Inv
<1> QED
  BY <1>2, <1>3

LEMMA DoIInv ==
    ASSUME IInv, NEW item, Performed(item), stack' = Continued, world' \in World,
           Explained(Continued, Len(stack), Len(stack), world, world')
    PROVE  IInv'
<1> DEFINE n == Len(stack)
<1>1. n \in Nat /\ n <= MaxDepth /\ world \in World /\ (stack = <<>> \/ Running)
  BY StackFacts DEF Performed
<1>2. Continued \in Seq(Call) /\ Len(Continued) = n
  BY <1>1, ContinuedFacts
<1>3. \A k \in 1..n : FrameInv(Continued, n, k)
  BY <1>1, WaitingFrames
<1>4. Claims(Continued, n, n, world) /\ SameCalls(Continued, n, Continued)
  BY <1>1, WaitingClaims DEF SameCalls
<1>5. More(Continued, n, world, Continued, n, world')
  <2>1. world.log \subseteq world'.log /\ OpenStays(Continued, n, Continued, n)
    BY DEF Explained, OpenStays
  <2> QED
    BY <2>1, MoreOpen
<1>6. Claims(Continued, n, n, world')
  BY <1>1, <1>4, <1>5, ClaimsMove
<1> QED
  BY <1>1, <1>2, <1>3, <1>6 DEF IInv, Inv

\* The transaction of the call i has its Safe make the call item.
Requested(item, i) ==
    LET f == Continued[i]
    IN  /\ Open(f) /\ f.self = sender /\ f.entry.safe = sender /\ sender \in Safe
        /\ Deep(f.entry.tx, Len(stack) - i, item)
        /\ Strict /\ f.guard = "noDelegatecall" /\ item.operation = "delegatecall" =>
              item.to = AllowedTarget /\ i = Len(stack)

LEMMA Sender ==
    ASSUME IInv, NEW item, Performed(item)
    PROVE  /\ item \in Item /\ (stack = <<>> \/ Running) /\ Len(stack) + 1 <= MaxDepth
           /\ sender \in Safe => stack # <<>> /\ sender = Continued[Len(stack)].self
           /\ item.operation = "delegatecall" => sender \in Safe
           /\ sender \in Safe /\ ~Simulated(Continued, Len(stack)) =>
                 \E i \in 1..Len(stack) : Requested(item, i)
<1> DEFINE n == Len(stack)
<1>1. n \in Nat /\ n <= MaxDepth /\ stack \in Seq(Call) /\ MaxDepth \in Nat \ {0}
  BY StackFacts, NetworkAssumption
<1>2. CASE stack = <<>> /\ item \in Outside
  <2>1. item \in Item /\ item.operation = "call" /\ sender = "outside" /\ "outside" \notin Safe
    BY <1>2, NetworkAssumption DEF sender
  <2> QED
    BY <1>1, <1>2, <2>1
<1>3. CASE Running /\ item = Head(Top.todo) /\ ~TooDeep /\ ~Refused(item)
  <2>1. stack # <<>> /\ Top = stack[n] /\ Top \in Call /\ FrameInv(stack, n, n) /\ n \in 1..n
        /\ Top.todo # <<>> /\ ~Top.failed /\ sender = Top.self
    BY <1>1, <1>3, StackFacts DEF Running, Top, sender
  <2>2. Top.todo \in Seq(Item)
    BY <2>1 DEF Call
  <2>3. item \in Item /\ 1 \in DOMAIN Top.todo /\ item = Top.todo[1]
    BY <1>3, <2>1, <2>2, TailOf
  <2>4. n + 1 <= MaxDepth
    BY <1>1, <1>3 DEF TooDeep
  <2>5. Continued[n].self = sender
    BY <1>3, <2>1, WaitingFrames
  <2>6. item.operation = "delegatecall" => sender \in Safe
    BY <1>3, <2>1, <2>3 DEF FrameInv, Harmless, Refused
  <2>7. ASSUME sender \in Safe, ~Simulated(Continued, n)
        PROVE  \E i \in 1..n : Requested(item, i)
    <3>1. ~Simulated(stack, n)
      BY <1>3, <2>7, WaitingFrames DEF Simulated
    <3>2. PICK i \in 1..n : Origin(stack, i, n)
      BY <2>1, <2>7, <3>1 DEF FrameInv, Commissioned
    <3>3. Interrupted(Continued[i]) /\ Continued[i].kind = "exec" /\ Continued[i].self = sender
      BY <1>3, <2>1, <3>2, WaitingFrames DEF Origin
    <3>4. Continued[i].entry = stack[i].entry /\ Continued[i].guard = stack[i].guard
      <4>1. CASE i = n
        BY <1>3, <2>1, <4>1, ContinuedFacts DEF Still
      <4>2. CASE i # n
        <5>1. i \in 1..(n - 1)
          BY <1>1, <4>2
        <5> QED
          BY <1>3, <5>1, ContinuedFacts DEF Same
      <4> QED
        BY <4>1, <4>2
    <3>5. FrameInv(stack, n, i) /\ stack[i].entry.safe = stack[i].self
      BY <3>2, StackFacts DEF FrameInv, Executing, Origin
    <3>6. Open(Continued[i])
      BY <3>3 DEF Open, Interrupted
    <3>7. Deep(Continued[i].entry.tx, n - i, item)
      BY <2>1, <2>3, <3>2, <3>4 DEF Origin
    <3>8. ASSUME Strict, Continued[i].guard = "noDelegatecall", item.operation = "delegatecall"
          PROVE  item.to = AllowedTarget /\ i = n
      <4>1. i = n
        BY <1>3, <2>1, <3>2, <3>4, <3>8 DEF Origin, Refused
      <4>2. Top.todo \in {<<>>, <<Top.entry.tx.item>>} /\ MayDelegate(Top.entry.tx.item)
        BY <2>1, <3>2, <3>4, <3>8, <4>1 DEF FrameInv, Executing, Origin
      <4>3. item = Top.entry.tx.item
        BY <2>1, <2>3, <4>2
      <4> QED
        BY <3>8, <4>1, <4>2, <4>3 DEF MayDelegate
    <3>9. stack[i].self = sender
      BY <2>1, <3>2 DEF Origin
    <3> QED
      BY <2>7, <3>3, <3>4, <3>5, <3>6, <3>7, <3>8, <3>9 DEF Requested
  <2> QED
    BY <1>3, <2>1, <2>3, <2>4, <2>5, <2>6, <2>7
<1> QED
  BY <1>2, <1>3 DEF Performed

LEMMA SenderNoKey ==
    ASSUME IInv
    PROVE  sender \notin Key
<1>1. Key \cap (Library \cup {"handler", "outside"}) = {} /\ Key \cap Safe = {}
  BY NetworkAssumption
<1>2. CASE stack = <<>>
  BY <1>1, <1>2 DEF sender
<1>3. CASE stack # <<>>
  <2>1. Len(stack) \in 1..Len(stack)
    BY <1>3, StackFacts
  <2>2. Top \in Call
    BY <2>1, StackFacts DEF Top
  <2> QED
    BY <1>1, <1>3, <2>2 DEF Call, Party, sender
<1> QED
  BY <1>2, <1>3

\* What a Safe does, its owners want.
LEMMA SenderWants ==
    ASSUME IInv, NEW item, Performed(item), sender \in Safe, ~Simulated(Continued, Len(stack)), NEW w
    PROVE  Wants(Continued, Len(stack), w, sender, item)
<1>1. PICK i \in 1..Len(stack) : Requested(item, i)
  BY Sender
<1>2. Len(stack) - i \in 0..MaxDepth
  BY StackFacts, NetworkAssumption
<1>3. HasPart(Continued[i].entry.tx, item)
  BY <1>1, <1>2, DeepIsPart DEF Requested
<1> QED
  BY <1>1, <1>3 DEF Wants, Requested

\* A Safe that delegates to another library than MultiSendCallOnly does it
\* for a module, or is not kept from it by its guard, or has been asked to
\* set another guard.
LEMMA SenderUnguarded ==
    ASSUME IInv, NEW item, Performed(item), ~Simulated(Continued, Len(stack)),
           item.operation = "delegatecall", item.to \in Library \ {"MultiSendCallOnly"},
           NEW w \in World, w.log = world.log, w.guard = world.guard
    PROVE  Unguarded(Continued, Len(stack), w, sender) \/ Demands(Continued, Len(stack), w, sender, item)
<1> DEFINE n == Len(stack)
<1> SUFFICES ASSUME Strict, ~Demands(Continued, n, w, sender, item)
             PROVE  w.guard[sender] # "noDelegatecall" \/ AsksForGuard(Continued, n, w, sender)
  BY DEF Unguarded
<1>1. n \in Nat /\ sender \in Safe /\ (stack = <<>> \/ Running)
  BY Sender, StackFacts
<1>2. PICK i \in 1..n : Requested(item, i)
  BY <1>1, Sender
<1>3. Continued[i].guard # "noDelegatecall"
  BY <1>2 DEF Requested, Strict
<1>4. FrameInv(Continued, n, i)
  BY <1>1, WaitingFrames
<1>5. Continued[i].guard = Continued[i].before.guard[sender]
  <2>1. n - i \in 0..MaxDepth
    BY <1>1, StackFacts, NetworkAssumption
  <2>2. HasPart(Continued[i].entry.tx, item)
    BY <1>2, <2>1, DeepIsPart DEF Requested
  <2>3. ~Continued[i].entry.module
    BY <1>2, <2>2 DEF Demands, Requested
  <2> QED
    BY <1>2, <1>4, <2>3 DEF FrameInv, Executing, Requested, Open
<1>6. Claims(Continued, n, n, world)
  BY <1>1, WaitingClaims
<1>7. world.guard[sender] = Continued[i].before.guard[sender] \/ AsksForGuard(Continued, n, world, sender)
  BY <1>1, <1>6 DEF Claims, GuardsAsked
<1>8. More(Continued, n, world, Continued, n, w)
  BY MoreOpen DEF OpenStays
<1>9. AsksForGuard(Continued, n, world, sender) => AsksForGuard(Continued, n, w, sender)
  BY <1>1, <1>8, MoreAsked
<1> QED
  BY <1>3, <1>5, <1>7, <1>9

LEMMA AppendFacts ==
    ASSUME NEW S, NEW q \in Seq(S), NEW x \in S
    PROVE  /\ Append(q, x) \in Seq(S) /\ Len(Append(q, x)) = Len(q) + 1
           /\ \A j \in 1..Len(q) : Append(q, x)[j] = q[j]
           /\ Append(q, x)[Len(q) + 1] = x
  OBVIOUS

LEMMA OneMoreCall ==
    ASSUME NEW st, NEW n \in Nat, NEW m \in Int, m <= n + 1
    PROVE  /\ Simulated(st, n) => Simulated(st, n + 1)
           /\ OpenStays(st, m, st, n + 1)
           /\ SameCalls(st, n + 1, st)
  BY DEF Simulated, OpenStays, SameCalls

LEMMA EnterIInv ==
    ASSUME IInv, NEW item, Performed(item), NEW f \in Call, f.before = world, stack' = Append(Continued, f),
           world' \in World, world'.signed = world.signed, world'.approved = world.approved,
           world'.migrated = world.migrated, world'.guard = world.guard, world'.log = world.log,
           Executing(f), Plain(f), Harmless(f),
           Commissioned(stack', Len(stack) + 1), Approved(stack', Len(stack) + 1)
    PROVE  IInv'
<1> DEFINE n == Len(stack)
<1>1. n \in Nat /\ n + 1 <= MaxDepth /\ world \in World /\ (stack = <<>> \/ Running)
  BY Sender, StackFacts
<1>2. Continued \in Seq(Call) /\ Len(Continued) = n
  BY <1>1, ContinuedFacts
<1>3. /\ stack' \in Seq(Call) /\ Len(stack') = n + 1 /\ stack'[n + 1] = f
      /\ \A j \in 1..n : stack'[j] = Continued[j]
  BY <1>2, AppendFacts
<1>4. ASSUME NEW k \in 1..n
      PROVE  FrameInv(stack', n + 1, k)
  <2>1. /\ FrameInv(Continued, n, k) /\ Interrupted(Continued[k]) /\ Continued[k] \in Call
        /\ k \in 1..Len(Continued)
    BY <1>1, <1>2, WaitingFrames
  <2>2. stack'[k] = Continued[k] /\ Same(Continued, k - 1, stack')
    BY <1>1, <1>3 DEF Same
  <2>3. Still(Continued[k], stack'[k]) /\ Interrupted(stack'[k])
    BY <2>1, <2>2, StillSame
  <2>4. \A st2, n2 : /\ n2 \in Nat /\ Same(Continued, k - 1, st2)
                    /\ Still(Continued[k], st2[k]) /\ Interrupted(st2[k])
           => FrameInv(st2, n2, k)
    BY <1>1, <1>2, <2>1, FrameMove
  <2>5. n + 1 \in Nat
    BY <1>1
  <2> QED
    BY <2>2, <2>3, <2>4, <2>5
<1>5. SameCalls(Continued, n, stack') /\ OpenStays(Continued, n - 1, stack', n - 1)
      /\ OpenStays(Continued, n - 1, stack', n + 1)
  BY <1>1, <1>3 DEF SameCalls, OpenStays
<1>6. Claims(Continued, n, n - 1, world)
  BY <1>1, WaitingClaims
<1>7. Claims(stack', n, n - 1, world)
  BY <1>1, <1>5, <1>6, MoreOpen, NothingNew, ClaimsMove
<1>8. FrameInv(stack', n + 1, n + 1)
  <2>1. (n + 1) - 1 = n /\ (n + 1) - 2 = n - 1 /\ ~(n + 1 < n + 1)
    BY <1>1
  <2> QED
    BY <1>3, <1>7, <2>1 DEF FrameInv
<1>9. Claims(stack', n + 1, n - 1, world)
  <2>1. Simulated(stack', n) => Simulated(stack', n + 1)
    BY <1>1, OneMoreCall
  <2>2. \A j \in 1..(n + 1) : j \in 1..n \/ j = n + 1
    BY <1>1
  <2>3. LogGrown(stack', n + 1, world)
    BY <1>3, <1>7, <2>2 DEF Claims, LogGrown
  <2>4. GuardsAsked(stack', n, n - 1, world) => GuardsAsked(stack', n + 1, n - 1, world)
    BY <1>3, <2>2 DEF GuardsAsked
  <2> QED
    BY <1>7, <2>1, <2>3, <2>4 DEF Claims
<1>10. Claims(stack', n + 1, n + 1, world')
  <2>1. OpenStays(stack', n - 1, stack', n + 1) /\ SameCalls(stack', n + 1, stack')
    <3>1. n - 1 \in Int /\ n - 1 <= n + 1
      BY <1>1
    <3> HIDE DEF n
    <3> QED
      BY <1>1, <3>1, OneMoreCall
  <2>2. More(stack', n - 1, world, stack', n + 1, world')
    BY <2>1, MoreOpen
  <2> QED
    BY <1>1, <1>9, <2>1, <2>2, NothingNew, ClaimsMove
<1>11. \A k \in 1..(n + 1) : FrameInv(stack', n + 1, k)
  <2>1. \A k \in 1..(n + 1) : k \in 1..n \/ k = n + 1
    BY <1>1
  <2> QED
    BY <1>4, <1>8, <2>1
<1> QED
  BY <1>1, <1>3, <1>10, <1>11 DEF IInv, Inv

-----------------------------------------------------------------------------
(* One lemma per function *)

LEMMA FrameFacts ==
    ASSUME IInv, NEW kind \in {"batch", "callOnly", "accessor", "handler", "simulation", "exec"},
           NEW a \in Party, NEW todo \in Seq(Item), NEW f, f = Frame(kind, a, todo)
    PROVE  /\ f \in Call /\ f.kind = kind /\ f.self = a /\ f.todo = todo /\ f.before = world
           /\ f.guard = "none" /\ Plain(f)
  BY StackFacts DEF Frame, Call, Guard, Plain

LEMMA Parameters ==
    ASSUME NEW item \in Item
    PROVE  /\ item.operation \in {"call", "delegatecall"}
           /\ Calls(item, "multiSend") => item.data.multiSend \in Seq(Item)
           /\ Calls(item, "simulate") => item.data.simulate \in Item
           /\ Calls(item, "simulateAndRevert") => item.data.simulateAndRevert \in Item
           /\ Calls(item, "simulateByHandler") =>
                 Send(item.to, [simulateAndRevert |-> item.data.simulateByHandler]) \in Item
           /\ Calls(item, "execTransaction") => item.data.execTransaction \in Tx
           /\ Calls(item, "execTransactionFromModule") => item.data.execTransactionFromModule \in Item
           /\ Calls(item, "enableModule") => item.data.enableModule \in Caller
           /\ Calls(item, "setGuard") => item.data.setGuard \in Guard
           /\ Calls(item, "setFallbackHandler") => item.data.setFallbackHandler \in BOOLEAN
  BY NetworkAssumption

LEMMA SimulatedStays ==
    ASSUME NEW st, NEW n \in Nat, NEW st2, Same(st, n, st2), Simulated(st, n)
    PROVE  Simulated(st2, n + 1)
<1>1. PICK i \in 1..n : st[i].kind = "simulation"
  BY DEF Simulated
<1>2. i \in 1..(n + 1) /\ st2[i].kind = "simulation"
  BY <1>1 DEF Same
<1> QED
  BY <1>2 DEF Simulated

LEMMA NotSafe == Safe \cap (Library \cup {"handler", "outside"}) = {}
  BY NetworkAssumption

\* A library makes calls in the name of its caller, or in its own.
LEMMA LibraryEnters ==
    ASSUME IInv, NEW item, Performed(item), NEW kind \in {"batch", "callOnly", "accessor", "handler"},
           NEW a \in Party, NEW todo \in Seq(Item), NEW f, f = Frame(kind, a, todo), Harmless(f),
           a \in Safe => item.operation = "delegatecall" /\ a = sender /\ todo = Inside(item),
           a \in Safe /\ Strict /\ item.to = AllowedTarget => kind = "callOnly",
           stack' = Append(Continued, f), UNCHANGED world
    PROVE  IInv'
<1> DEFINE n == Len(stack)
<1>1. n \in Nat /\ n + 1 <= MaxDepth /\ MaxDepth \in Nat /\ world \in World /\ (stack = <<>> \/ Running)
  BY Sender, StackFacts, NetworkAssumption
<1>2. /\ f \in Call /\ f.kind = kind /\ f.self = a /\ f.todo = todo /\ f.before = world
      /\ f.guard = "none" /\ Plain(f)
  BY FrameFacts
<1>3. Continued \in Seq(Call) /\ Len(Continued) = n
  BY <1>1, ContinuedFacts
<1>4. stack'[n + 1] = f /\ \A j \in 1..n : stack'[j] = Continued[j]
  BY <1>2, <1>3, AppendFacts
<1>5. Commissioned(stack', n + 1)
  <2> SUFFICES ASSUME a \in Safe, ~Simulated(stack', n + 1)
               PROVE  \E i \in 1..(n + 1) : Origin(stack', i, n + 1)
    BY <1>2, <1>4 DEF Commissioned
  <2>1. ~Simulated(Continued, n)
    <3>1. Same(Continued, n, stack')
      BY <1>4 DEF Same
    <3> HIDE DEF n
    <3> QED
      BY <1>1, <3>1, SimulatedStays
  <2>2. PICK i \in 1..n : Requested(item, i)
    BY <2>1, Sender
  <2>3. i \in 1..(n + 1) /\ n - i \in 0..MaxDepth /\ (n - i) + 1 <= MaxDepth /\ (n + 1) - i = (n - i) + 1
    BY <1>1
  <2>4. stack'[i] = Continued[i]
    BY <1>4
  <2>5. \A j \in DOMAIN Inside(item) : Deep(Continued[i].entry.tx, (n - i) + 1, Inside(item)[j])
    BY <2>2, <2>3, OneDeeper DEF Requested
  <2>6. Strict /\ Continued[i].guard = "noDelegatecall" => n + 1 = i + 1 /\ kind = "callOnly"
    BY <2>2 DEF Requested
  <2>7. Continued[i].kind = "exec" /\ Continued[i].self = a
    BY <2>2 DEF Requested, Open
  <2>8. Origin(stack', i, n + 1)
    BY <1>2, <1>4, <2>3, <2>4, <2>5, <2>6, <2>7 DEF Origin
  <2> QED
    BY <2>3, <2>8
<1>6. Executing(f) /\ Approved(stack', n + 1)
  BY <1>2, <1>4 DEF Executing, Approved
<1> QED
  BY <1>1, <1>2, <1>5, <1>6, EnterIInv

LEMMA MultiSendIInv ==
    ASSUME IInv, NEW item, Performed(item), multiSend(item)
    PROVE  IInv'
<1>1. item \in Item /\ (stack = <<>> \/ Running) /\ (item.operation = "delegatecall" => sender \in Safe)
  BY Sender
<1>2. CASE self(item) # "MultiSend"
  <2>1. item.operation = "delegatecall" /\ self(item) = sender /\ sender \in Safe /\ item.to = "MultiSend"
    BY <1>1, <1>2, Parameters DEF self, multiSend
  <2>2. item.data.multiSend \in Seq(Item) /\ item.data.multiSend = Inside(item)
    BY <1>1, <2>1, Parameters DEF multiSend, Inside
  <2>3. PICK f : f = Frame("batch", sender, item.data.multiSend)
    OBVIOUS
  <2>4. f.self = sender /\ Harmless(f)
    BY <2>1, <2>3 DEF Frame, Harmless
  <2>5. stack' = Append(Continued, f) /\ UNCHANGED world
    BY <1>2, <2>1, <2>3 DEF multiSend, Enter
  <2>6. ~(Strict /\ item.to = AllowedTarget)
    BY <2>1 DEF Strict, Library
  <2>7. sender \in Party
    BY <2>1 DEF Party
  <2> QED
    BY <2>1, <2>2, <2>3, <2>4, <2>5, <2>6, <2>7, LibraryEnters
<1>3. CASE Fail
  BY <1>1, <1>3, FailIInv
<1> QED
  BY <1>2, <1>3 DEF multiSend

LEMMA MultiSendCallOnlyIInv ==
    ASSUME IInv, NEW item, Performed(item), multiSendCallOnly(item)
    PROVE  IInv'
<1>1. item \in Item /\ (stack = <<>> \/ Running) /\ (item.operation = "delegatecall" => sender \in Safe)
  BY Sender
<1>2. item.to = "MultiSendCallOnly" /\ item.data.multiSend \in Seq(Item)
  BY <1>1, Parameters DEF multiSendCallOnly
<1>3. PICK f : f = Frame("callOnly", self(item), item.data.multiSend)
  OBVIOUS
<1>4. f.kind = "callOnly" /\ Harmless(f)
  BY <1>3 DEF Frame, Harmless
<1>5. stack' = Append(Continued, f) /\ UNCHANGED world
  BY <1>3 DEF multiSendCallOnly, Enter
<1>6. self(item) \in Party
  BY <1>1, <1>2, Parameters DEF self, Party, Library
<1>7. self(item) \in Safe => /\ item.operation = "delegatecall" /\ self(item) = sender
                             /\ item.data.multiSend = Inside(item)
  BY <1>1, <1>2, NotSafe, Parameters DEF self, Library, Inside, multiSendCallOnly
<1> QED
  BY <1>2, <1>3, <1>4, <1>5, <1>6, <1>7, LibraryEnters

LEMMA SimulateIInv ==
    ASSUME IInv, NEW item, Performed(item), simulate(item)
    PROVE  IInv'
<1>1. item \in Item /\ (stack = <<>> \/ Running) /\ (item.operation = "delegatecall" => sender \in Safe)
  BY Sender
<1>2. CASE self(item) # "SimulateTxAccessor"
  <2>1. /\ item.operation = "delegatecall" /\ item.to = "SimulateTxAccessor"
        /\ self(item) = sender /\ sender \in Safe
    BY <1>1, <1>2, Parameters DEF self, simulate
  <2>2. item.data.simulate \in Item /\ <<item.data.simulate>> = Inside(item)
    BY <1>1, <2>1, Parameters DEF simulate, Inside
  <2>3. PICK f : f = Frame("accessor", sender, <<item.data.simulate>>)
    OBVIOUS
  <2>4. f.self = sender /\ Harmless(f)
    BY <2>1, <2>3 DEF Frame, Harmless
  <2>5. stack' = Append(Continued, f) /\ UNCHANGED world
    BY <1>2, <2>1, <2>3 DEF simulate, Enter
  <2>6. ~(Strict /\ item.to = AllowedTarget)
    BY <2>1 DEF Strict, Library
  <2>7. sender \in Party /\ <<item.data.simulate>> \in Seq(Item)
    BY <2>1, <2>2 DEF Party
  <2> QED
    BY <2>1, <2>2, <2>3, <2>4, <2>5, <2>6, <2>7, LibraryEnters
<1>3. CASE Fail
  BY <1>1, <1>3, FailIInv
<1> QED
  BY <1>2, <1>3 DEF simulate

LEMMA SimulateAndRevertIInv ==
    ASSUME IInv, NEW item, Performed(item), simulateAndRevert(item)
    PROVE  IInv'
<1> DEFINE n == Len(stack)
<1>1. item \in Item /\ (stack = <<>> \/ Running) /\ n \in Nat /\ world \in World
  BY Sender, StackFacts
<1>2. item.to \in Party /\ item.to \in Safe /\ <<item.data.simulateAndRevert>> \in Seq(Item)
  <2>1. item.data.simulateAndRevert \in Item
    BY <1>1, Parameters DEF simulateAndRevert
  <2> QED
    BY <2>1 DEF simulateAndRevert, ToSafe, Party
<1>3. PICK f : f = Frame("simulation", item.to, <<item.data.simulateAndRevert>>)
  OBVIOUS
<1>4. /\ f \in Call /\ f.kind = "simulation" /\ f.self \in Safe /\ f.before = world /\ Plain(f)
  <2>1. PICK q : q = <<item.data.simulateAndRevert>>
    OBVIOUS
  <2>2. q \in Seq(Item) /\ f = Frame("simulation", item.to, q) /\ item.to \in Party /\ item.to \in Safe
    BY <1>2, <1>3, <2>1
  <2> QED
    BY <1>1, <2>2 DEF Frame, Call, Guard, Plain
<1>5. stack' = Append(Continued, f) /\ UNCHANGED world
  BY <1>3 DEF simulateAndRevert, Enter
<1>6. stack'[n + 1] = f
  BY <1>1, <1>4, <1>5, ContinuedFacts, AppendFacts
<1>7. Simulated(stack', n + 1)
  BY <1>1, <1>4, <1>6 DEF Simulated
<1>8. Commissioned(stack', n + 1) /\ Approved(stack', n + 1) /\ Executing(f) /\ Harmless(f)
  BY <1>4, <1>7 DEF Commissioned, Approved, Executing, Harmless
<1> QED
  BY <1>1, <1>4, <1>5, <1>8, EnterIInv

LEMMA SimulateByHandlerIInv ==
    ASSUME IInv, NEW item, Performed(item), simulateByHandler(item)
    PROVE  IInv'
<1>1. item \in Item /\ (stack = <<>> \/ Running) /\ world \in World
  BY Sender, StackFacts
<1>2. CASE world.handler[item.to]
  <2>1. PICK call : call = Send(item.to, [simulateAndRevert |-> item.data.simulateByHandler])
    OBVIOUS
  <2>2. call \in Item /\ call.operation = "call"
    BY <1>1, <2>1, Parameters DEF simulateByHandler, Send
  <2>3. PICK f : f = Frame("handler", "handler", <<call>>)
    OBVIOUS
  <2>4. "handler" \in Party /\ "handler" \notin Safe /\ <<call>> \in Seq(Item)
    BY <2>2, NotSafe DEF Party
  <2>5. f.todo = <<call>>
    BY <2>3 DEF Frame
  <2>6. Harmless(f)
    BY <2>2, <2>5 DEF Harmless
  <2>7. stack' = Append(Continued, f) /\ UNCHANGED world
    BY <1>2, <2>1, <2>3 DEF simulateByHandler, Enter
  <2> QED
    BY <2>3, <2>4, <2>6, <2>7, LibraryEnters
<1>3. CASE Do(world)
  BY <1>1, <1>3, NothingNew, DoIInv DEF Do
<1> QED
  BY <1>2, <1>3 DEF simulateByHandler

Messages == {item.data.signMessage : item \in {i \in Item : Calls(i, "signMessage")}}

Hashes == {item.data.approveHash : item \in {i \in Item : Calls(i, "approveHash")}}

LEMMA WorldType ==
    World = [nonce : [Safe -> Nat], modules : [Safe -> SUBSET Caller],
             approved : SUBSET (Safe \X Safe \X Hashes), guard : [Safe -> Guard],
             guards : [active : BOOLEAN, txNonces : SUBSET (Item \X Nat)],
             handler : [Safe -> BOOLEAN], signed : SUBSET (Safe \X Messages),
             migrated : SUBSET Safe, touched : [Safe -> Nat], ordered : [Safe -> Nat],
             log : SUBSET Entry]
  BY DEF World, Messages, Hashes

LEMMA SignMessageIInv ==
    ASSUME IInv, NEW item, Performed(item), signMessage(item)
    PROVE  IInv'
<1> DEFINE n == Len(stack)
           h == item.data.signMessage
<1>1. item \in Item /\ (stack = <<>> \/ Running) /\ world \in World
  BY Sender, StackFacts
<1>2. CASE self(item) \in Safe
  <2>1. /\ item.to = "SignMessageLib" /\ Calls(item, "signMessage") /\ item.operation = "delegatecall"
        /\ self(item) = sender /\ sender \in Safe
    BY <1>1, <1>2, NotSafe, Parameters DEF self, signMessage, Library
  <2>2. PICK w : w = [world EXCEPT !.signed = @ \cup {<<sender, h>>}]
    OBVIOUS
  <2>3. world' = w /\ stack' = Continued
    BY <1>2, <2>1, <2>2 DEF signMessage, Do
  <2>4. /\ w \in World /\ w.log = world.log /\ w.guard = world.guard /\ w.migrated = world.migrated
        /\ w.approved = world.approved /\ w.signed = world.signed \cup {<<sender, h>>}
    <3>1. h \in Messages
      BY <1>1, <2>1 DEF Messages
    <3> HIDE DEF h
    <3>2. PICK x : x = world.signed \cup {<<sender, h>>}
      OBVIOUS
    <3>3. x \in SUBSET (Safe \X Messages)
      <4>1. <<sender, h>> \in Safe \X Messages
        BY <2>1, <3>1
      <4>2. world.signed \in SUBSET (Safe \X Messages)
        BY <1>1, WorldType
      <4> QED
        BY <3>2, <4>1, <4>2
    <3>4. w = [world EXCEPT !.signed = x]
      BY <2>2, <3>2
    <3>5. /\ w \in World /\ w.log = world.log /\ w.guard = world.guard /\ w.migrated = world.migrated
          /\ w.approved = world.approved /\ w.signed = x
      BY <1>1, <3>3, <3>4, WorldType
    <3> QED
      BY <3>2, <3>5
  <2>5. ASSUME ~Simulated(Continued, n)
        PROVE  /\ AsksToSign(Continued, n, w, sender, h)
               /\ Unguarded(Continued, n, w, sender) \/ DemandsToSign(Continued, n, w, sender, h)
    <3>1. Wants(Continued, n, w, sender, item)
      BY <2>1, <2>5, SenderWants
    <3>2. AsksToSign(Continued, n, w, sender, h)
      BY <1>1, <2>1, <3>1 DEF AsksToSign, Is
    <3>3. item.to \in Library \ {"MultiSendCallOnly"}
      BY <2>1 DEF Library
    <3>4. Unguarded(Continued, n, w, sender) \/ Demands(Continued, n, w, sender, item)
      BY <2>1, <2>4, <2>5, <3>3, SenderUnguarded
    <3>5. Demands(Continued, n, w, sender, item) => DemandsToSign(Continued, n, w, sender, h)
      BY <1>1, <2>1 DEF DemandsToSign, Is
    <3> QED
      BY <3>2, <3>4, <3>5
  <2> HIDE DEF h
  <2>6. \A c \in w.signed \ world.signed : c[1] = sender /\ c[2] = h
    BY <2>4
  <2>7. Explained(Continued, n, n, world, w)
    BY <2>4, <2>5, <2>6 DEF Explained
  <2> QED
    BY <2>3, <2>4, <2>7, DoIInv
<1>3. CASE Fail
  BY <1>1, <1>3, FailIInv
<1> QED
  BY <1>2, <1>3 DEF signMessage

LEMMA MigrateIInv ==
    ASSUME IInv, NEW item, Performed(item), migrate(item)
    PROVE  IInv'
<1> DEFINE n == Len(stack)
<1>1. /\ item \in Item /\ (stack = <<>> \/ Running) /\ world \in World
      /\ (item.operation = "delegatecall" => sender \in Safe)
  BY Sender, StackFacts
<1>2. CASE self(item) # "Migration"
  <2>1. /\ item.to = "Migration" /\ Calls(item, "migrate") /\ item.operation = "delegatecall"
        /\ self(item) = sender /\ sender \in Safe
    BY <1>1, <1>2, Parameters DEF self, migrate
  <2>2. PICK w : w = [world EXCEPT !.migrated = @ \cup {sender}]
    OBVIOUS
  <2>3. world' = w /\ stack' = Continued
    BY <1>2, <2>1, <2>2 DEF migrate, Do
  <2>4. /\ w \in World /\ w.log = world.log /\ w.guard = world.guard /\ w.signed = world.signed
        /\ w.approved = world.approved /\ w.migrated = world.migrated \cup {sender}
    BY <1>1, <2>1, <2>2, WorldType
  <2>5. ASSUME ~Simulated(Continued, n)
        PROVE  /\ AsksToMigrate(Continued, n, w, sender)
               /\ Unguarded(Continued, n, w, sender) \/ DemandsToMigrate(Continued, n, w, sender)
    <3>1. Wants(Continued, n, w, sender, item)
      BY <2>1, <2>5, SenderWants
    <3>2. AsksToMigrate(Continued, n, w, sender)
      BY <1>1, <2>1, <3>1 DEF AsksToMigrate, Is
    <3>3. item.to \in Library \ {"MultiSendCallOnly"}
      BY <2>1 DEF Library
    <3>4. Unguarded(Continued, n, w, sender) \/ Demands(Continued, n, w, sender, item)
      BY <2>1, <2>4, <2>5, <3>3, SenderUnguarded
    <3>5. Demands(Continued, n, w, sender, item) => DemandsToMigrate(Continued, n, w, sender)
      BY <1>1, <2>1 DEF DemandsToMigrate, Is
    <3> QED
      BY <3>2, <3>4, <3>5
  <2>6. \A s \in w.migrated \ world.migrated : s = sender
    BY <2>4
  <2>7. Explained(Continued, n, n, world, w)
    BY <2>4, <2>5, <2>6 DEF Explained
  <2> QED
    BY <2>3, <2>4, <2>7, DoIInv
<1>3. CASE Fail
  BY <1>1, <1>3, FailIInv
<1> QED
  BY <1>2, <1>3 DEF migrate

\* What a Safe approves, its owners want.
LEMMA ApproveHashIInv ==
    ASSUME IInv, NEW item, Performed(item), approveHash(item)
    PROVE  IInv'
<1> DEFINE n == Len(stack)
           h == item.data.approveHash
<1>1. /\ item \in Item /\ (stack = <<>> \/ Running) /\ world \in World
      /\ item.to \in Safe /\ item.operation = "call" /\ Calls(item, "approveHash")
  BY Sender, StackFacts DEF approveHash, ToSafe
<1>2. CASE sender \in Owners[item.to]
  <2>1. sender \in Safe
    <3>1. sender \in Safe \cup Key
      BY <1>1, <1>2, OwnersFinite
    <3>2. sender \notin Key
      BY SenderNoKey
    <3> QED
      BY <3>1, <3>2
  <2>2. PICK x : x = world.approved \cup {<<item.to, sender, h>>}
    OBVIOUS
  <2>3. PICK w : w = [world EXCEPT !.approved = x]
    OBVIOUS
  <2>4. world' = w /\ stack' = Continued
    BY <1>2, <2>2, <2>3 DEF approveHash, Do
  <2>5. x \in SUBSET (Safe \X Safe \X Hashes)
    <3>1. h \in Hashes
      BY <1>1 DEF Hashes
    <3> HIDE DEF h
    <3>2. <<item.to, sender, h>> \in Safe \X Safe \X Hashes
      BY <1>1, <2>1, <3>1
    <3>3. world.approved \in SUBSET (Safe \X Safe \X Hashes)
      BY <1>1, WorldType
    <3> QED
      BY <2>2, <3>2, <3>3
  <2>6. /\ w \in World /\ w.log = world.log /\ w.guard = world.guard /\ w.migrated = world.migrated
        /\ w.signed = world.signed /\ w.approved = x
    BY <1>1, <2>3, <2>5, WorldType
  <2>7. ASSUME ~Simulated(Continued, n)
        PROVE  AsksToApprove(Continued, n, w, sender, item.to, h)
    <3>1. Wants(Continued, n, w, sender, item)
      BY <2>1, <2>7, SenderWants
    <3> QED
      BY <1>1, <3>1 DEF AsksToApprove, Is
  <2> HIDE DEF h
  <2>8. \A c \in w.approved \ world.approved : c[1] = item.to /\ c[2] = sender /\ c[3] = h
    BY <2>2, <2>6
  <2>9. Explained(Continued, n, n, world, w)
    BY <2>6, <2>7, <2>8 DEF Explained
  <2> QED
    BY <2>4, <2>6, <2>9, DoIInv
<1>3. CASE Fail
  BY <1>1, <1>3, FailIInv
<1> QED
  BY <1>2, <1>3 DEF approveHash

\* The Safes among the owners whose approval is there.
LEMMA Presented ==
    ASSUME NEW s \in Safe, NEW h, NEW o \in Approvers(s, h), o \in Safe
    PROVE  o = sender \/ <<s, o, h>> \in world.approved \/ o \in Accepting(h)
<1>1. ASSUME <<o, h>> \in Confirmed PROVE FALSE
  <2>1. <<o, h>>[1] \in Key
    BY <1>1, NetworkAssumption
  <2> QED
    BY <2>1, NetworkAssumption
<1> QED
  BY <1>1 DEF Approvers, Confirming

\* Safes that accept a contract signature have agreed, as what they signed
\* and approved shows.
LEMMA AcceptingAgree ==
    ASSUME world \in World, NEW h, NEW signers, NEW approvals,
           \A o \in Safe : <<o, h>> \in world.signed => o \in signers,
           \A o, p \in Safe : <<o, p, messageHash(o, h)>> \in world.approved => <<o, p>> \in approvals
    PROVE  Accepting(h) \subseteq Deepest(Agree(signers, approvals, h))
<1> DEFINE next == [accepting \in SUBSET Safe |->
                {o \in Safe \ world.migrated :
                    /\ world.handler[o]
                    /\ \/ <<o, h>> \in world.signed
                       \/ Cardinality(Confirming(o, messageHash(o, h), accepting)) >= Threshold[o]}]
<1>1. ASSUME NEW X \in SUBSET Safe, NEW Y \in SUBSET Safe, X \subseteq Y
      PROVE  next[X] \subseteq Agree(signers, approvals, h)[Y]
  <2> SUFFICES ASSUME NEW o \in Safe, Cardinality(Confirming(o, messageHash(o, h), X)) >= Threshold[o]
               PROVE  Cardinality(Backers(o, h, approvals, Y)) >= Threshold[o]
    BY DEF Agree
  <2>1. \A p : <<o, p, messageHash(o, h)>> \in world.approved => <<o, p>> \in approvals
    <3> SUFFICES ASSUME NEW p, <<o, p, messageHash(o, h)>> \in world.approved PROVE <<o, p>> \in approvals
      OBVIOUS
    <3>1. <<o, p, messageHash(o, h)>> \in Safe \X Safe \X Hashes
      BY WorldType
    <3>2. p \in Safe
      BY <3>1
    <3> QED
      BY <3>2
  <2>2. /\ Confirming(o, messageHash(o, h), X) \in SUBSET Owners[o]
        /\ Backers(o, h, approvals, Y) \in SUBSET Owners[o]
        /\ Confirming(o, messageHash(o, h), X) \subseteq Backers(o, h, approvals, Y)
    BY <1>1, <2>1 DEF Confirming, Backers
  <2> QED
    BY <2>2, MoreOwners
<1>2. next \in [SUBSET Safe -> SUBSET Safe] /\ Agree(signers, approvals, h) \in [SUBSET Safe -> SUBSET Safe]
  BY DEF Agree
<1>3. Accepting(h) = Deepest(next)
  BY DEF Accepting
<1> HIDE DEF next
<1> QED
  BY <1>1, <1>2, <1>3, DeepestWithin

\* A Safe among the approvers of a transaction stands behind it.
LEMMA ApproverConsents ==
    ASSUME IInv, NEW item, Performed(item), ~Simulated(Continued, Len(stack)),
           item.operation = "call", Calls(item, "execTransaction"), item.to \in Safe,
           NEW e, e.safe = item.to, e.tx = item.data.execTransaction, NEW h, h = txHash(e.safe, e.tx, e.nonce),
           NEW o \in Approvers(item.to, h), o \in Safe
    PROVE  Consents(Continued, Len(stack), world, o, e)
<1> DEFINE n == Len(stack)
<1>1. item \in Item /\ (stack = <<>> \/ Running) /\ world \in World
  BY Sender, StackFacts
<1>2. SignedAsked(Continued, n, world) /\ ApprovedAsked(Continued, n, world)
  BY <1>1, WaitingClaims DEF Claims
<1>3. ASSUME NEW s, NEW p, NEW x, <<s, p, x>> \in world.approved
      PROVE  AsksToApprove(Continued, n, world, p, s, x)
  <2>1. PICK c : c = <<s, p, x>>
    OBVIOUS
  <2>2. c \in world.approved /\ c[1] = s /\ c[2] = p /\ c[3] = x
    BY <1>3, <2>1
  <2> QED
    BY <1>2, <2>2 DEF ApprovedAsked
<1>4. CASE o = sender
  <2>1. Wants(Continued, n, world, o, item)
    BY <1>1, <1>4, SenderWants
  <2>2. AsksToCall(Continued, n, world, o, e)
    BY <1>1, <2>1 DEF AsksToCall, Is
  <2> QED
    BY <2>2 DEF Consents
<1>5. CASE <<item.to, o, h>> \in world.approved
  BY <1>3, <1>5 DEF Consents
<1>6. CASE o \in Accepting(h)
  <2>1. \A p \in Safe : <<p, h>> \in world.signed => p \in Signers(Continued, n, world, h)
    <3> SUFFICES ASSUME NEW p \in Safe, <<p, h>> \in world.signed PROVE AsksToSign(Continued, n, world, p, h)
      BY DEF Signers
    <3>1. PICK c : c = <<p, h>>
      OBVIOUS
    <3>2. c \in world.signed /\ c[1] = p /\ c[2] = h
      BY <3>1
    <3> QED
      BY <1>2, <3>2 DEF SignedAsked
  <2>2. \A q, p \in Safe : <<q, p, messageHash(q, h)>> \in world.approved =>
           <<q, p>> \in Approvals(Continued, n, world, h)
    BY <1>3 DEF Approvals
  <2>3. o \in Deepest(Agree(Signers(Continued, n, world, h), Approvals(Continued, n, world, h), h))
    BY <1>1, <1>6, <2>1, <2>2, AcceptingAgree
  <2> QED
    BY <2>3 DEF Consents
<1> QED
  BY <1>4, <1>5, <1>6, Presented

LEMMA ExecTransactionIInv ==
    ASSUME IInv, NEW item, Performed(item), execTransaction(item)
    PROVE  IInv'
<1> DEFINE n == Len(stack)
<1>1. /\ item \in Item /\ (stack = <<>> \/ Running) /\ world \in World /\ n \in Nat
      /\ item.to \in Safe /\ item.operation = "call" /\ Calls(item, "execTransaction")
  BY Sender, StackFacts DEF execTransaction, ToSafe
<1>2. PICK s, tx, nonce, g, by :
          /\ s = item.to /\ tx = item.data.execTransaction /\ nonce = world.nonce[s]
          /\ g = world.guard[s] /\ by = Approvers(s, txHash(s, tx, nonce))
  OBVIOUS
<1>3. s \in Safe /\ tx \in Tx /\ tx.item \in Item /\ nonce \in Nat /\ g \in Guard
  BY <1>1, <1>2, Parameters DEF World, Tx
<1>4. by \subseteq Owners[s] /\ by \subseteq Safe \cup Key
  BY <1>2, <1>3, OwnersFinite DEF Approvers, Confirming
<1>5. CASE Fail
  BY <1>1, <1>5, FailIInv
<1>6. CASE ~Fail
  <2>1. PICK e : e = [safe |-> s, tx |-> tx, nonce |-> nonce, by |-> by, module |-> FALSE, ok |-> FALSE]
    OBVIOUS
  <2>2. PICK f : f = [Frame("exec", s, <<tx.item>>) EXCEPT !.entry = e, !.guard = g]
    OBVIOUS
  <2>3. PICK l : l = Entered(g, world.guards, tx.item, nonce)
    OBVIOUS
  <2>4. /\ Allows(g, world.guards, tx.item) /\ stack' = Append(Continued, f)
        /\ world' = [world EXCEPT !.nonce[s] = nonce + 1, !.guards = l]
    BY <1>2, <1>6, <2>1, <2>2, <2>3 DEF execTransaction, Enter
  <2>5. e \in Entry /\ e.safe = s /\ e.tx = tx /\ e.by = by /\ e.nonce = nonce /\ e.module = FALSE
    BY <1>3, <1>4, <2>1 DEF Entry
  <2>6. l \in [active : BOOLEAN, txNonces : SUBSET (Item \X Nat)]
    <3>1. PICK c, I : c = world.guards /\ I = tx.item
      OBVIOUS
    <3>2. c \in [active : BOOLEAN, txNonces : SUBSET (Item \X Nat)] /\ <<I, nonce>> \in Item \X Nat
      BY <1>1, <1>3, <3>1 DEF World
    <3>3. l = Entered(g, c, I, nonce)
      BY <2>3, <3>1
    <3> QED
      BY <3>2, <3>3 DEF Entered, Raise, Record
  <2>7. /\ world' \in World /\ world'.signed = world.signed /\ world'.approved = world.approved
        /\ world'.migrated = world.migrated /\ world'.guard = world.guard /\ world'.log = world.log
    <3>1. PICK x : x = [world.nonce EXCEPT ![s] = nonce + 1]
      OBVIOUS
    <3>2. x \in [Safe -> Nat]
      BY <1>1, <1>3, <3>1 DEF World
    <3>3. world' = [world EXCEPT !.nonce = x, !.guards = l]
      BY <2>4, <3>1
    <3> QED
      BY <1>1, <2>6, <3>2, <3>3, WorldType
  <2>8. /\ f \in Call /\ f.kind = "exec" /\ f.self = s /\ f.before = world /\ f.entry = e
        /\ f.guard = g /\ f.todo = <<tx.item>>
    <3>1. PICK q : q = <<tx.item>>
      OBVIOUS
    <3>2. q \in Seq(Item) /\ s \in Party
      BY <1>3, <3>1 DEF Party
    <3>3. f = [Frame("exec", s, q) EXCEPT !.entry = e, !.guard = g]
      BY <2>2, <3>1
    <3>4. /\ f \in Call /\ f.kind = "exec" /\ f.self = s /\ f.before = world /\ f.entry = e
          /\ f.guard = g /\ f.todo = q
      BY <1>1, <1>3, <2>5, <3>2, <3>3 DEF Frame, Call
    <3> QED
      BY <3>1, <3>4
  <2>9. g = "noDelegatecall" => MayDelegate(tx.item)
    BY <2>4 DEF Allows
  <2>10. Executing(f) /\ Plain(f) /\ Harmless(f)
    BY <1>2, <1>3, <2>5, <2>8, <2>9 DEF Executing, Plain, Harmless
  <2>11. stack'[n + 1] = f /\ \A j \in 1..n : stack'[j] = Continued[j]
    BY <1>1, <2>4, <2>8, ContinuedFacts, AppendFacts
  <2>12. Commissioned(stack', n + 1)
    <3>1. (n + 1) - (n + 1) = 0 /\ n + 1 \in 1..(n + 1)
      BY <1>1
    <3>2. \A j \in DOMAIN f.todo : f.todo[j] = tx.item
      BY <2>8
    <3>3. Deep(tx, 0, tx.item)
      BY <1>3, TopLevel
    <3>4. Origin(stack', n + 1, n + 1)
      BY <2>5, <2>8, <2>11, <3>1, <3>2, <3>3 DEF Origin
    <3> QED
      BY <3>1, <3>4 DEF Commissioned
  <2>13. Approved(stack', n + 1)
    <3> SUFFICES ASSUME ~Simulated(stack', n + 1), NEW o \in by \cap Safe
                 PROVE  Consents(stack', n, world, o, e)
      <4>1. (n + 1) - 1 = n
        BY <1>1
      <4> QED
        BY <2>5, <2>8, <2>11, <4>1 DEF Approved
    <3>1. Same(Continued, n, stack')
      BY <2>11 DEF Same
    <3>2. ~Simulated(Continued, n)
      <4> HIDE DEF n
      <4> QED
        BY <1>1, <3>1, SimulatedStays
    <3>3. More(Continued, n, world, stack', n, world)
      <4> HIDE DEF n
      <4> QED
        BY <3>1, SameMore
    <3>4. PICK h : h = txHash(s, tx, nonce)
      OBVIOUS
    <3>5. o \in Approvers(item.to, h) /\ o \in Safe /\ h = txHash(e.safe, e.tx, e.nonce)
      BY <1>2, <2>5, <3>4
    <3>6. Consents(Continued, n, world, o, e)
      BY <1>1, <1>2, <2>5, <3>2, <3>5, ApproverConsents
    <3> QED
      BY <3>3, <3>6, MoreAsked
  <2> QED
    BY <1>1, <2>4, <2>7, <2>8, <2>10, <2>12, <2>13, EnterIInv
<1> QED
  BY <1>5, <1>6

\* A module's order is a transaction that no owner has approved and no guard
\* sees.
LEMMA ExecTransactionFromModuleIInv ==
    ASSUME IInv, NEW item, Performed(item), execTransactionFromModule(item)
    PROVE  IInv'
<1> DEFINE n == Len(stack)
<1>1. /\ item \in Item /\ (stack = <<>> \/ Running) /\ world \in World /\ n \in Nat
      /\ item.to \in Safe /\ item.data.execTransactionFromModule \in Item
  BY Sender, StackFacts, Parameters DEF execTransactionFromModule, ToSafe
<1>2. PICK s, i, tx, nonce :
          /\ s = item.to /\ i = item.data.execTransactionFromModule /\ tx = [item |-> i, tolerant |-> TRUE]
          /\ nonce = world.ordered[s]
  OBVIOUS
<1>3. s \in Safe /\ i \in Item /\ tx \in Tx /\ tx.item = i /\ nonce \in Nat
  BY <1>1, <1>2 DEF World, Tx
<1>4. CASE Fail
  BY <1>1, <1>4, FailIInv
<1>5. CASE ~Fail
  <2>1. PICK e : e = [safe |-> s, tx |-> tx, nonce |-> nonce, by |-> {}, module |-> TRUE, ok |-> FALSE]
    OBVIOUS
  <2>2. PICK f : f = [Frame("exec", s, <<tx.item>>) EXCEPT !.entry = e]
    OBVIOUS
  <2>3. stack' = Append(Continued, f) /\ world' = [world EXCEPT !.ordered[s] = nonce + 1]
    BY <1>2, <1>5, <2>1, <2>2 DEF execTransactionFromModule, Enter
  <2>4. e \in Entry /\ e.safe = s /\ e.tx = tx /\ e.by = {} /\ e.nonce = nonce /\ e.module = TRUE
    BY <1>3, <2>1 DEF Entry
  <2>5. /\ world' \in World /\ world'.signed = world.signed /\ world'.approved = world.approved
        /\ world'.migrated = world.migrated /\ world'.guard = world.guard /\ world'.log = world.log
    <3>1. PICK x : x = [world.ordered EXCEPT ![s] = nonce + 1]
      OBVIOUS
    <3>2. x \in [Safe -> Nat]
      BY <1>1, <1>3, <3>1 DEF World
    <3>3. world' = [world EXCEPT !.ordered = x]
      BY <2>3, <3>1
    <3> QED
      BY <1>1, <3>2, <3>3, WorldType
  <2>6. /\ f \in Call /\ f.kind = "exec" /\ f.self = s /\ f.before = world /\ f.entry = e
        /\ f.guard = "none" /\ f.todo = <<tx.item>>
    <3>1. PICK q : q = <<tx.item>>
      OBVIOUS
    <3>2. q \in Seq(Item) /\ s \in Party
      BY <1>3, <3>1 DEF Party
    <3>3. f = [Frame("exec", s, q) EXCEPT !.entry = e]
      BY <2>2, <3>1
    <3>4. /\ f \in Call /\ f.kind = "exec" /\ f.self = s /\ f.before = world /\ f.entry = e
          /\ f.guard = "none" /\ f.todo = q
      BY <1>1, <1>3, <2>4, <3>2, <3>3 DEF Frame, Call, Guard
    <3> QED
      BY <3>1, <3>4
  <2>7. Executing(f) /\ Plain(f) /\ Harmless(f)
    BY <1>3, <2>4, <2>6 DEF Executing, Plain, Harmless
  <2>8. stack'[n + 1] = f
    BY <1>1, <2>3, <2>6, ContinuedFacts, AppendFacts
  <2>9. Commissioned(stack', n + 1)
    <3>1. (n + 1) - (n + 1) = 0 /\ n + 1 \in 1..(n + 1)
      BY <1>1
    <3>2. \A j \in DOMAIN f.todo : f.todo[j] = tx.item
      BY <2>6
    <3>3. Deep(tx, 0, tx.item)
      BY <1>3, TopLevel
    <3>4. Origin(stack', n + 1, n + 1)
      BY <2>4, <2>6, <2>8, <3>1, <3>2, <3>3 DEF Origin
    <3> QED
      BY <3>1, <3>4 DEF Commissioned
  <2>10. Approved(stack', n + 1)
    BY <2>4, <2>6, <2>8 DEF Approved
  <2> QED
    BY <1>1, <2>3, <2>5, <2>6, <2>7, <2>9, <2>10, EnterIInv
<1> QED
  BY <1>4, <1>5

LEMMA SetGuardIInv ==
    ASSUME IInv, NEW item, Performed(item), setGuard(item)
    PROVE  IInv'
<1> DEFINE n == Len(stack)
<1>1. /\ item \in Item /\ (stack = <<>> \/ Running) /\ world \in World
      /\ item.to \in Safe /\ item.operation = "call" /\ Calls(item, "setGuard")
      /\ item.data.setGuard \in Guard
  BY Sender, StackFacts, Parameters DEF setGuard, ToSafe
<1>2. CASE sender = item.to
  <2>1. PICK x : x = [world.guard EXCEPT ![item.to] = item.data.setGuard]
    OBVIOUS
  <2>2. PICK w : w = [world EXCEPT !.guard = x]
    OBVIOUS
  <2>3. world' = w /\ stack' = Continued
    BY <1>2, <2>1, <2>2 DEF setGuard, Do
  <2>4. x \in [Safe -> Guard] /\ \A s \in Safe : s # item.to => x[s] = world.guard[s]
    BY <1>1, <2>1 DEF World
  <2>5. /\ w \in World /\ w.log = world.log /\ w.signed = world.signed /\ w.approved = world.approved
        /\ w.migrated = world.migrated /\ w.guard = x
    BY <1>1, <2>2, <2>4, WorldType
  <2>6. ASSUME ~Simulated(Continued, n)
        PROVE  AsksForGuard(Continued, n, w, item.to)
    <3>1. Wants(Continued, n, w, sender, item)
      BY <1>1, <1>2, <2>6, SenderWants
    <3> QED
      BY <1>1, <1>2, <3>1 DEF AsksForGuard, Is
  <2>7. Explained(Continued, n, n, world, w)
    BY <2>4, <2>5, <2>6 DEF Explained
  <2> QED
    BY <2>3, <2>5, <2>7, DoIInv
<1>3. CASE Fail
  BY <1>1, <1>3, FailIInv
<1> QED
  BY <1>2, <1>3 DEF setGuard

LEMMA SetFallbackHandlerIInv ==
    ASSUME IInv, NEW item, Performed(item), setFallbackHandler(item)
    PROVE  IInv'
<1>1. /\ item \in Item /\ (stack = <<>> \/ Running) /\ world \in World
      /\ item.data.setFallbackHandler \in BOOLEAN
  BY Sender, StackFacts, Parameters DEF setFallbackHandler
<1>2. CASE sender = item.to
  <2>1. PICK x : x = [world.handler EXCEPT ![item.to] = item.data.setFallbackHandler]
    OBVIOUS
  <2>2. PICK w : w = [world EXCEPT !.handler = x]
    OBVIOUS
  <2>3. world' = w /\ stack' = Continued
    BY <1>2, <2>1, <2>2 DEF setFallbackHandler, Do
  <2>4. x \in [Safe -> BOOLEAN]
    BY <1>1, <2>1 DEF World
  <2>5. /\ w \in World /\ w.log = world.log /\ w.signed = world.signed /\ w.approved = world.approved
        /\ w.migrated = world.migrated /\ w.guard = world.guard
    BY <1>1, <2>2, <2>4, WorldType
  <2> QED
    BY <2>3, <2>5, NothingNew, DoIInv
<1>3. CASE Fail
  BY <1>1, <1>3, FailIInv
<1> QED
  BY <1>2, <1>3 DEF setFallbackHandler

\* Which modules are enabled is no part of the claims.
LEMMA ModulesIInv ==
    ASSUME IInv, NEW item, Performed(item), enableModule(item) \/ disableModule(item)
    PROVE  IInv'
<1>1. /\ item \in Item /\ (stack = <<>> \/ Running) /\ world \in World
      /\ enableModule(item) => item.data.enableModule \in Caller
  BY Sender, StackFacts, Parameters DEF enableModule
<1>2. CASE Fail
  BY <1>1, <1>2, FailIInv
<1>3. CASE ~Fail
  <2>1. PICK x : /\ x \in [Safe -> SUBSET Caller]
                 /\ world' = [world EXCEPT !.modules = x] /\ stack' = Continued
    <3>1. CASE enableModule(item)
      <4>1. PICK x : x = [world.modules EXCEPT ![item.to] = @ \cup {item.data.enableModule}]
        OBVIOUS
      <4>2. x \in [Safe -> SUBSET Caller]
        BY <1>1, <3>1, <4>1 DEF World
      <4> QED
        BY <1>3, <3>1, <4>1, <4>2 DEF enableModule, Do
    <3>2. CASE disableModule(item)
      <4>1. PICK x : x = [world.modules EXCEPT ![item.to] = @ \ {item.data.disableModule}]
        OBVIOUS
      <4>2. x \in [Safe -> SUBSET Caller]
        BY <1>1, <4>1 DEF World
      <4> QED
        BY <1>3, <3>2, <4>1, <4>2 DEF disableModule, Do
    <3> QED
      BY <3>1, <3>2
  <2>2. PICK w : w = [world EXCEPT !.modules = x]
    OBVIOUS
  <2>3. /\ w \in World /\ w.log = world.log /\ w.signed = world.signed /\ w.approved = world.approved
        /\ w.migrated = world.migrated /\ w.guard = world.guard
    BY <1>1, <2>1, <2>2, WorldType
  <2> QED
    BY <2>1, <2>2, <2>3, NothingNew, DoIInv
<1> QED
  BY <1>2, <1>3

LEMMA ForeignIInv ==
    ASSUME IInv, NEW item, Performed(item), Foreign(item)
    PROVE  IInv'
<1>1. item \in Item /\ (stack = <<>> \/ Running) /\ world \in World
  BY Sender, StackFacts
<1>2. CASE Fail
  BY <1>1, <1>2, FailIInv
<1>3. CASE Do(world)
  BY <1>1, <1>3, NothingNew, DoIInv DEF Do
<1>4. CASE sender \in Safe /\ Do([world EXCEPT !.touched[sender] = @ + 1])
  <2>1. PICK x : x = [world.touched EXCEPT ![sender] = @ + 1]
    OBVIOUS
  <2>2. PICK w : w = [world EXCEPT !.touched = x]
    OBVIOUS
  <2>3. world' = w /\ stack' = Continued
    BY <1>4, <2>1, <2>2 DEF Do
  <2>4. x \in [Safe -> Nat]
    BY <1>1, <1>4, <2>1 DEF World
  <2>5. /\ w \in World /\ w.log = world.log /\ w.signed = world.signed /\ w.approved = world.approved
        /\ w.migrated = world.migrated /\ w.guard = world.guard
    BY <1>1, <2>2, <2>4, WorldType
  <2> QED
    BY <2>3, <2>5, NothingNew, DoIInv
<1> QED
  BY <1>2, <1>3, <1>4 DEF Foreign

LEMMA PerformIInv ==
    ASSUME IInv, NEW item, Performed(item), Perform(item)
    PROVE  IInv'
  BY MultiSendIInv, MultiSendCallOnlyIInv, SignMessageIInv, MigrateIInv, SimulateIInv,
     SimulateAndRevertIInv, SimulateByHandlerIInv, ExecTransactionIInv, ExecTransactionFromModuleIInv,
     ApproveHashIInv, ModulesIInv, SetGuardIInv, SetFallbackHandlerIInv, ForeignIInv DEF Perform

LEMMA NextIInv ==
    ASSUME IInv, [Next]_vars
    PROVE  IInv'
<1>1. CASE stack = <<>> /\ \E item \in Outside : Perform(item)
  <2>1. PICK item \in Outside : Perform(item)
    BY <1>1
  <2> QED
    BY <1>1, <2>1, PerformIInv DEF Performed
<1>2. CASE NextItem
  <2>1. CASE TooDeep \/ Refused(Head(Top.todo))
    BY <1>2, <2>1, FailIInv DEF NextItem
  <2>2. CASE ~(TooDeep \/ Refused(Head(Top.todo)))
    BY <1>2, <2>2, PerformIInv DEF NextItem, Performed
  <2> QED
    BY <2>1, <2>2
<1>3. CASE ExecEnds
  BY <1>3, ExecEndsIInv
<1>4. CASE BatchEnds \/ AccessorEnds \/ HandlerEnds \/ SimulationEnds \/ OutOfGas
  BY <1>4, EndsIInv
<1>5. CASE UNCHANGED vars
  BY <1>5 DEF vars, IInv
<1> QED
  BY <1>1, <1>2, <1>3, <1>4, <1>5 DEF Next

LEMMA InitIInv ==
    ASSUME Init
    PROVE  IInv
<1>1. world \in World /\ world.log = {} /\ world.signed = {} /\ world.approved = {} /\ world.migrated = {}
  <2>1. PICK g \in [Safe -> InitialGuards], h \in [Safe -> BOOLEAN], m \in InitialModules :
           world = [nonce |-> [s \in Safe |-> 0], modules |-> m, approved |-> {}, guard |-> g,
                    guards |-> FreshGuards, handler |-> h, signed |-> {}, migrated |-> {},
                    touched |-> [s \in Safe |-> 0], ordered |-> [s \in Safe |-> 0], log |-> {}]
    BY DEF Init
  <2>2. g \in [Safe -> Guard] /\ m \in [Safe -> SUBSET Caller]
    BY NetworkAssumption DEF Guard
  <2> QED
    BY <2>1, <2>2, WorldType DEF FreshGuards
<1>2. stack = <<>> /\ stack \in Seq(Call) /\ Len(stack) = 0 /\ 0 <= MaxDepth
  BY NetworkAssumption DEF Init
<1>3. Claims(stack, 0, 0, world)
  BY <1>1 DEF Claims, LogGrown, SignedAsked, ApprovedAsked, MigratedAsked, LogConsented, Kept, Clean,
              GuardsAsked
<1> QED
  BY <1>1, <1>2, <1>3 DEF IInv, Inv

LEMMA Invariance == Spec => []IInv
  BY InitIInv, NextIInv, PTL DEF Spec

-----------------------------------------------------------------------------
(* Between transactions *)

\* What a transaction that has ended asked for.
LEMMA WantedIsAsked ==
    ASSUME NEW s, NEW item, NEW to, NEW operation, NEW function,
           Wants(<<>>, 0, world, s, item), Is(item, to, operation, function)
    PROVE  item \in Asked(All, s, to, operation, function)
<1>1. PICK e \in world.log : e.safe = s /\ e.ok /\ HasPart(e.tx, item)
  BY DEF Wants
<1> DEFINE G(d) == Parts(All, d.tx)
           D == Done(s)
<1>2. e \in D /\ item \in G(e)
  BY <1>1 DEF Done, HasPart
<1> HIDE DEF G, D
<1>3. item \in UNION {G(d) : d \in D}
  BY <1>2
<1> QED
  BY <1>3 DEF G, D, Asked, Is

LEMMA DemandedIsOrdered ==
    ASSUME NEW s, NEW item, NEW to, NEW operation, NEW function,
           Demands(<<>>, 0, world, s, item), Is(item, to, operation, function)
    PROVE  item \in Ordered(s, to, operation, function)
<1>1. PICK e \in world.log : e.safe = s /\ e.ok /\ e.module /\ HasPart(e.tx, item)
  BY DEF Demands
<1> DEFINE G(d) == Parts(All, d.tx)
           D == {f \in Done(s) : f.module}
<1>2. e \in D /\ item \in G(e)
  BY <1>1 DEF Done, HasPart
<1> HIDE DEF G, D
<1>3. item \in UNION {G(d) : d \in D}
  BY <1>2
<1> QED
  BY <1>3 DEF G, D, Ordered, Is

\* Who agreed, in terms of what transactions asked for.
LEMMA AgreeingAgree ==
    ASSUME NEW h
    PROVE  Agreeing(h) = Deepest(Agree({o \in Safe : \E item \in AskedToSign(All, o) : item.data.signMessage = h},
                                       {c \in Safe \X Safe : AskedToApprove(c[2], c[1], messageHash(c[1], h))}, h))
<1> DEFINE Signed(o) == \E item \in AskedToSign(All, o) : item.data.signMessage = h
           approvals == {c \in Safe \X Safe : AskedToApprove(c[2], c[1], messageHash(c[1], h))}
           Approving(o, agreeing) ==
               {p \in Owners[o] : \/ <<p, messageHash(o, h)>> \in Confirmed
                                  \/ p \in Safe /\ AskedToApprove(p, o, messageHash(o, h))
                                  \/ p \in agreeing}
<1>1. ASSUME NEW o \in Safe, NEW agreeing
      PROVE  Approving(o, agreeing) = Backers(o, h, approvals, agreeing)
  <2>1. \A p : <<o, p>> \in approvals <=> p \in Safe /\ AskedToApprove(p, o, messageHash(o, h))
    OBVIOUS
  <2> HIDE DEF approvals
  <2> QED
    BY <2>1 DEF Backers
<1>2. Agreeing(h) = Deepest([agreeing \in SUBSET Safe |->
          {o \in Safe : Signed(o) \/ Cardinality(Approving(o, agreeing)) >= Threshold[o]}])
  BY DEF Agreeing
<1> HIDE DEF Signed, approvals, Approving
<1>3. [agreeing \in SUBSET Safe |->
          {o \in Safe : Signed(o) \/ Cardinality(Approving(o, agreeing)) >= Threshold[o]}]
      = Agree({o \in Safe : Signed(o)}, approvals, h)
  <2>1. \A agreeing \in SUBSET Safe :
           {o \in Safe : Signed(o) \/ Cardinality(Approving(o, agreeing)) >= Threshold[o]}
           = {o \in Safe : o \in {q \in Safe : Signed(q)}
                           \/ Cardinality(Backers(o, h, approvals, agreeing)) >= Threshold[o]}
    BY <1>1
  <2> QED
    BY <2>1 DEF Agree
<1> QED
  BY <1>2, <1>3 DEF Signed, approvals

\* The lists of calls and their storage are well formed: no library's code
\* ever works on the library's own storage, and nothing nests deeper than
\* the EVM allows.
THEOREM TypeCorrect == Spec => []TypeOK
<1>1. IInv => TypeOK
  BY StackFacts DEF TypeOK
<1> QED
  BY <1>1, Invariance, PTL

LEMMA Quiet ==
    ASSUME IInv, stack = <<>>
    PROVE  /\ world \in World
           /\ SignedAsked(<<>>, 0, world) /\ ApprovedAsked(<<>>, 0, world) /\ MigratedAsked(<<>>, 0, world)
           /\ LogConsented(<<>>, 0, world) /\ Kept(<<>>, 0, world)
<1>1. Claims(<<>>, 0, 0, world) /\ world \in World
  BY StackFacts
<1>2. ~Simulated(<<>>, 0)
  BY DEF Simulated
<1> QED
  BY <1>1, <1>2 DEF Claims

\* Between transactions every message a Safe has signed, every hash it has
\* approved in another Safe and every migration was asked for by a
\* transaction of its owners, or an order of its modules, that succeeded:
\* nothing survives of a simulation or of what reverted.
THEOREM AskedEffects == Spec => []NothingUnasked
<1>1. ASSUME IInv PROVE NothingUnasked
  <2> SUFFICES ASSUME stack = <<>>
               PROVE  /\ \A c \in world.signed : \E item \in AskedToSign(All, c[1]) : item.data.signMessage = c[2]
                      /\ \A c \in world.approved :
                            \E item \in Asked(All, c[2], c[1], "call", "approveHash") :
                                item.data.approveHash = c[3]
                      /\ \A s \in world.migrated : AskedToMigrate(All, s) # {}
    BY DEF NothingUnasked
  <2>1. ASSUME NEW c \in world.signed
        PROVE  \E item \in AskedToSign(All, c[1]) : item.data.signMessage = c[2]
    <3>1. PICK item \in Item : /\ Wants(<<>>, 0, world, c[1], item)
                              /\ Is(item, "SignMessageLib", "delegatecall", "signMessage")
                              /\ item.data.signMessage = c[2]
      BY <1>1, <2>1, Quiet DEF SignedAsked, AsksToSign
    <3> QED
      BY <3>1, WantedIsAsked DEF AskedToSign
  <2>2. ASSUME NEW s \in world.migrated
        PROVE  AskedToMigrate(All, s) # {}
    <3>1. PICK item \in Item :
              Wants(<<>>, 0, world, s, item) /\ Is(item, "Migration", "delegatecall", "migrate")
      BY <1>1, <2>2, Quiet DEF MigratedAsked, AsksToMigrate
    <3> QED
      BY <3>1, WantedIsAsked DEF AskedToMigrate
  <2>3. ASSUME NEW c \in world.approved
        PROVE  \E item \in Asked(All, c[2], c[1], "call", "approveHash") : item.data.approveHash = c[3]
    <3>1. PICK item \in Item : /\ Wants(<<>>, 0, world, c[2], item)
                              /\ Is(item, c[1], "call", "approveHash")
                              /\ item.data.approveHash = c[3]
      BY <1>1, <2>3, Quiet DEF ApprovedAsked, AsksToApprove
    <3> QED
      BY <3>1, WantedIsAsked
  <2> QED
    BY <2>1, <2>2, <2>3
<1> QED
  BY <1>1, Invariance, PTL

\* Whenever a Safe counted as an owner that confirmed, it has agreed to the
\* hash as a message (a transaction had it sign, or enough of its owners
\* signed the message, approved it or have agreed themselves), or a
\* transaction of its owners had it approve the hash or make the call.
THEOREM OwnersConsent == Spec => []ConsentOnly
<1>1. ASSUME IInv PROVE ConsentOnly
  <2> SUFFICES ASSUME stack = <<>>, NEW e \in world.log, NEW o \in e.by \cap Safe
               PROVE  LET h == txHash(e.safe, e.tx, e.nonce)
                      IN  \/ o \in Agreeing(h)
                          \/ AskedToApprove(o, e.safe, h)
                          \/ \E item \in Asked(All, o, e.safe, "call", "execTransaction") :
                                item.data.execTransaction = e.tx
    BY DEF ConsentOnly
  <2>1. Consents(<<>>, 0, world, o, e)
    BY <1>1, Quiet DEF LogConsented
  <2>2. PICK h : h = txHash(e.safe, e.tx, e.nonce)
    OBVIOUS
  <2>3. \A p, s, x : AsksToApprove(<<>>, 0, world, p, s, x) => AskedToApprove(p, s, x)
    BY WantedIsAsked DEF AsksToApprove, AskedToApprove
  <2>4. ASSUME NEW p, AsksToSign(<<>>, 0, world, p, h)
        PROVE  \E item \in AskedToSign(All, p) : item.data.signMessage = h
    BY <2>4, WantedIsAsked DEF AsksToSign, AskedToSign
  <2>5. CASE o \in Deepest(Agree(Signers(<<>>, 0, world, h), Approvals(<<>>, 0, world, h), h))
    <3> DEFINE S == {p \in Safe : \E item \in AskedToSign(All, p) : item.data.signMessage = h}
               A == {c \in Safe \X Safe : AskedToApprove(c[2], c[1], messageHash(c[1], h))}
    <3>1. Signers(<<>>, 0, world, h) \subseteq S
      BY <2>4 DEF Signers
    <3>2. Approvals(<<>>, 0, world, h) \subseteq A
      BY <2>3 DEF Approvals
    <3>3. Agreeing(h) = Deepest(Agree(S, A, h))
      BY AgreeingAgree
    <3> HIDE DEF S, A
    <3>4. o \in Agreeing(h)
      BY <2>5, <3>1, <3>2, <3>3, AgreeWithin
    <3> QED
      BY <2>2, <3>4
  <2>6. CASE AsksToApprove(<<>>, 0, world, o, e.safe, h)
    BY <2>2, <2>3, <2>6
  <2>7. CASE AsksToCall(<<>>, 0, world, o, e)
    BY <2>7, WantedIsAsked DEF AsksToCall
  <2> QED
    BY <2>1, <2>2, <2>5, <2>6, <2>7 DEF Consents
<1> QED
  BY <1>1, Invariance, PTL

\* Behind a DelegateCallTransactionGuard that lets only MultiSendCallOnly
\* through, and that the Safe has not been asked to replace, only orders of
\* modules change its singleton and its list of signed messages, however the
\* calls of its transactions are nested.
THEOREM GuardKeepsCode == Spec => []GuardedSafeKeepsCode
<1>1. ASSUME IInv PROVE GuardedSafeKeepsCode
  <2> SUFFICES ASSUME stack = <<>>, Strict, NEW s \in Safe, world.guard[s] = "noDelegatecall",
                      Asked(All, s, s, "call", "setGuard") = {}
               PROVE  /\ s \in world.migrated => Ordered(s, "Migration", "delegatecall", "migrate") # {}
                      /\ \A c \in world.signed : c[1] = s =>
                            \E item \in Ordered(s, "SignMessageLib", "delegatecall", "signMessage") :
                                item.data.signMessage = c[2]
    BY DEF GuardedSafeKeepsCode, Strict
  <2>1. ~AsksForGuard(<<>>, 0, world, s)
    BY WantedIsAsked DEF AsksForGuard
  <2>2. Clean(<<>>, 0, world, s)
    BY <1>1, <2>1, Quiet DEF Kept
  <2>3. DemandsToMigrate(<<>>, 0, world, s) => Ordered(s, "Migration", "delegatecall", "migrate") # {}
    BY DemandedIsOrdered DEF DemandsToMigrate
  <2>4. ASSUME NEW h, DemandsToSign(<<>>, 0, world, s, h)
        PROVE  \E item \in Ordered(s, "SignMessageLib", "delegatecall", "signMessage") :
                   item.data.signMessage = h
    BY <2>4, DemandedIsOrdered DEF DemandsToSign
  <2> QED
    BY <2>2, <2>3, <2>4 DEF Clean
<1> QED
  BY <1>1, Invariance, PTL

-----------------------------------------------------------------------------
(* The flag of the shared guard, for the world now and for those that the    *)
(* calls in progress return to when they revert                              *)

Up(w) == w.guards.active

Holds(f) == f.guard = "reentrancy"

One(st, n, w) ==
    /\ Up(w) <=> \E i \in 1..n : Holds(st[i])
    /\ \A i \in 1..n : \A j \in 1..n : Holds(st[i]) /\ Holds(st[j]) => i = j

HeldInv(st, n, w) ==
    /\ One(st, n, w)
    /\ \A k \in 1..n : One(st, k - 1, st[k].before)

SameGuards(st, n, st2) ==
    \A i \in 1..n : (Holds(st2[i]) <=> Holds(st[i])) /\ st2[i].before = st[i].before

LEMMA OneSame ==
    ASSUME NEW st, NEW n \in Int, NEW w, NEW st2, NEW w2,
           One(st, n, w), SameGuards(st, n, st2), Up(w2) <=> Up(w)
    PROVE  One(st2, n, w2)
  BY DEF One, SameGuards

LEMMA BeforesSame ==
    ASSUME NEW st, NEW n \in Nat, NEW st2, SameGuards(st, n, st2), NEW k \in 1..n, One(st, k - 1, st[k].before)
    PROVE  One(st2, k - 1, st2[k].before)
<1>1. k - 1 \in Int /\ \A i \in 1..(k - 1) : i \in 1..n
  OBVIOUS
<1>2. SameGuards(st, k - 1, st2) /\ st2[k].before = st[k].before
  BY <1>1 DEF SameGuards
<1> QED
  BY <1>1, <1>2, OneSame

LEMMA HeldSame ==
    ASSUME NEW st, NEW n \in Nat, NEW w, NEW st2, NEW w2,
           HeldInv(st, n, w), SameGuards(st, n, st2), Up(w2) <=> Up(w)
    PROVE  HeldInv(st2, n, w2)
<1>1. One(st2, n, w2)
  BY OneSame DEF HeldInv
<1>2. \A k \in 1..n : One(st2, k - 1, st2[k].before)
  BY BeforesSame DEF HeldInv
<1> QED
  BY <1>1, <1>2 DEF HeldInv

LEMMA HeldEnter ==
    ASSUME NEW st, NEW n \in Nat, NEW w, NEW st2, NEW w2,
           HeldInv(st, n, w), SameGuards(st, n, st2), st2[n + 1].before = w,
           IF Holds(st2[n + 1]) THEN ~Up(w) /\ Up(w2) ELSE Up(w2) <=> Up(w)
    PROVE  HeldInv(st2, n + 1, w2)
<1>1. \A i : i \in 1..(n + 1) <=> i \in 1..n \/ i = n + 1
  OBVIOUS
<1>2. HeldInv(st2, n, w)
  BY HeldSame
<1>3. One(st2, n + 1, w2)
  BY <1>1, <1>2 DEF HeldInv, One
<1>4. (n + 1) - 1 = n
  OBVIOUS
<1>5. \A k \in 1..(n + 1) : One(st2, k - 1, st2[k].before)
  BY <1>1, <1>2, <1>4 DEF HeldInv
<1> QED
  BY <1>3, <1>5 DEF HeldInv

LEMMA HeldRevert ==
    ASSUME NEW st, NEW n \in Nat, n # 0, NEW w, NEW st2, NEW w2,
           HeldInv(st, n, w), SameGuards(st, n - 1, st2), w2 = st[n].before
    PROVE  HeldInv(st2, n - 1, w2)
<1>1. n \in 1..n /\ n - 1 \in Nat /\ \A i : i \in 1..(n - 1) => i \in 1..n
  OBVIOUS
<1>2. HeldInv(st, n - 1, w2)
  BY <1>1 DEF HeldInv
<1> QED
  BY <1>1, <1>2, HeldSame

LEMMA HeldLeave ==
    ASSUME NEW st, NEW n \in Nat, n # 0, NEW w, NEW st2, NEW w2,
           HeldInv(st, n, w), SameGuards(st, n - 1, st2),
           IF Holds(st[n]) THEN ~Up(w2) ELSE Up(w2) <=> Up(w)
    PROVE  HeldInv(st2, n - 1, w2)
<1>1. n - 1 \in Nat /\ n \in 1..n /\ n \notin 1..(n - 1) /\ \A i : i \in 1..n <=> i \in 1..(n - 1) \/ i = n
  OBVIOUS
<1>2. One(st, n - 1, w2)
  BY <1>1 DEF HeldInv, One
<1>3. HeldInv(st, n - 1, w2)
  BY <1>1, <1>2 DEF HeldInv
<1> QED
  BY <1>1, <1>3, HeldSame

Held == HeldInv(stack, Len(stack), world)

LEMMA ContinuedGuards ==
    ASSUME IInv, stack = <<>> \/ Running
    PROVE  SameGuards(stack, Len(stack), Continued)
<1> SUFFICES ASSUME NEW i \in 1..Len(stack)
             PROVE  (Holds(Continued[i]) <=> Holds(stack[i])) /\ Continued[i].before = stack[i].before
  BY DEF SameGuards
<1>1. CASE i = Len(stack)
  <2>1. stack # <<>>
    BY StackFacts
  <2>2. Still(stack[i], Continued[i])
    BY <1>1, <2>1, ContinuedFacts
  <2> QED
    BY <2>2 DEF Still, Holds
<1>2. CASE i # Len(stack)
  <2>1. i \in 1..(Len(stack) - 1)
    BY <1>2, StackFacts
  <2> QED
    BY <2>1, ContinuedFacts DEF Same
<1> QED
  BY <1>1, <1>2

LEMMA FailHeld ==
    ASSUME IInv, Held, stack = <<>> \/ Running, Fail
    PROVE  Held'
<1> DEFINE n == Len(stack)
<1>1. n \in Nat /\ Continued \in Seq(Call) /\ Len(Continued) = n /\ SameGuards(stack, n, Continued)
  BY ContinuedFacts, ContinuedGuards, StackFacts
<1>2. CASE stack = <<>>
  BY <1>2 DEF Fail, Held
<1>3. CASE stack # <<>>
  <2>1. n \in 1..n
    BY <1>1, <1>3, StackFacts
  <2>2. PICK g : g = [Continued[n] EXCEPT !.failed = TRUE]
    OBVIOUS
  <2>3. Continued[n] \in Call
    BY <1>1, <2>1
  <2>4. (Holds(g) <=> Holds(Continued[n])) /\ g.before = Continued[n].before
    BY <2>2, <2>3 DEF Call, Holds
  <2>5. stack' = [Continued EXCEPT ![n] = g] /\ world' = world
    BY <1>3, <2>2 DEF Fail
  <2>6. Len(stack') = n /\ stack'[n] = g /\ \A i \in 1..n : i # n => stack'[i] = Continued[i]
    BY <1>1, <2>1, <2>5
  <2>7. SameGuards(stack, n, stack')
    BY <1>1, <2>4, <2>6 DEF SameGuards
  <2>8. HeldInv(stack', n, world)
    <3>1. HeldInv(stack, n, world)
      BY DEF Held
    <3> HIDE DEF n
    <3> QED
      BY <1>1, <2>7, <3>1, HeldSame
  <2> QED
    BY <2>5, <2>6, <2>8 DEF Held
<1> QED
  BY <1>2, <1>3

LEMMA DoHeld ==
    ASSUME IInv, Held, stack = <<>> \/ Running, stack' = Continued, world'.guards = world.guards
    PROVE  Held'
<1> DEFINE n == Len(stack)
<1>1. n \in Nat /\ Len(Continued) = n /\ SameGuards(stack, n, Continued)
  BY ContinuedFacts, ContinuedGuards, StackFacts
<1>2. HeldInv(stack, n, world)
  BY DEF Held
<1>3. Up(world') <=> Up(world)
  BY DEF Up
<1>4. HeldInv(Continued, n, world')
  <2> HIDE DEF n
  <2> QED
    BY <1>1, <1>2, <1>3, HeldSame
<1> QED
  BY <1>1, <1>4 DEF Held

LEMMA EnterHeld ==
    ASSUME IInv, Held, stack = <<>> \/ Running, NEW f \in Call, f.before = world,
           stack' = Append(Continued, f),
           IF Holds(f) THEN ~Up(world) /\ Up(world') ELSE Up(world') <=> Up(world)
    PROVE  Held'
<1> DEFINE n == Len(stack)
<1>1. n \in Nat /\ Continued \in Seq(Call) /\ Len(Continued) = n /\ SameGuards(stack, n, Continued)
  BY ContinuedFacts, ContinuedGuards, StackFacts
<1>2. HeldInv(stack, n, world)
  BY DEF Held
<1>3. Len(stack') = n + 1 /\ stack'[n + 1] = f /\ \A j \in 1..n : stack'[j] = Continued[j]
  BY <1>1, AppendFacts
<1>4. SameGuards(stack, n, stack')
  BY <1>1, <1>3 DEF SameGuards
<1>5. HeldInv(stack', n + 1, world')
  <2> HIDE DEF n
  <2> QED
    BY <1>1, <1>2, <1>3, <1>4, HeldEnter
<1> QED
  BY <1>3, <1>5 DEF Held

LEMMA RevertHeld ==
    ASSUME IInv, Held, stack # <<>>, RevertTop
    PROVE  Held'
<1> DEFINE n == Len(stack)
<1>1. n \in Nat /\ n # 0 /\ stack \in Seq(Call) /\ Top = stack[n]
  BY StackFacts DEF Top
<1>2. Rest \in Seq(Call) /\ Len(Rest) = n - 1 /\ \A k \in 1..(n - 1) : Rest[k] = stack[k]
  BY <1>1, RestFacts DEF Rest
<1>3. Len(stack') = n - 1 /\ SameGuards(stack, n - 1, stack')
  <2>1. CASE n = 1
    BY <1>1, <1>2, <2>1 DEF RevertTop, SameGuards
  <2>2. CASE n > 1
    <3>1. PICK f : f = [Rest[n - 1] EXCEPT !.failed = TRUE]
      OBVIOUS
    <3>2. Rest[n - 1] \in Call /\ Rest[n - 1] = stack[n - 1]
      BY <1>1, <1>2, <2>2
    <3>3. (Holds(f) <=> Holds(stack[n - 1])) /\ f.before = stack[n - 1].before
      BY <3>1, <3>2 DEF Call, Holds
    <3>4. stack' = [Rest EXCEPT ![n - 1] = f]
      BY <1>1, <1>2, <2>2, <3>1 DEF RevertTop
    <3>5. Len(stack') = n - 1 /\ stack'[n - 1] = f /\ \A i \in 1..(n - 1) : i # n - 1 => stack'[i] = stack[i]
      BY <1>1, <1>2, <2>2, <3>4
    <3> QED
      BY <3>3, <3>5 DEF SameGuards
  <2>3. n = 1 \/ n > 1
    <3> HIDE DEF n
    <3> QED
      BY <1>1
  <2> QED
    BY <2>1, <2>2, <2>3
<1>4. HeldInv(stack, n, world) /\ world' = stack[n].before
  BY <1>1 DEF Held, RevertTop
<1>5. HeldInv(stack', n - 1, world')
  <2> HIDE DEF n
  <2> QED
    BY <1>1, <1>3, <1>4, HeldRevert
<1> QED
  BY <1>3, <1>5 DEF Held

LEMMA LeaveHeld ==
    ASSUME IInv, Held, stack # <<>>, stack' = Rest,
           IF Holds(Top) THEN ~Up(world') ELSE Up(world') <=> Up(world)
    PROVE  Held'
<1> DEFINE n == Len(stack)
<1>1. n \in Nat /\ n # 0 /\ stack \in Seq(Call) /\ Top = stack[n]
  BY StackFacts DEF Top
<1>2. Len(stack') = n - 1 /\ \A k \in 1..(n - 1) : stack'[k] = stack[k]
  BY <1>1, RestFacts DEF Rest
<1>3. SameGuards(stack, n - 1, stack')
  BY <1>2 DEF SameGuards
<1>4. HeldInv(stack, n, world)
  BY DEF Held
<1>5. HeldInv(stack', n - 1, world')
  <2> HIDE DEF n
  <2> QED
    BY <1>1, <1>3, <1>4, HeldLeave
<1> QED
  BY <1>2, <1>5 DEF Held

LEMMA EndsHeld ==
    ASSUME IInv, Held, BatchEnds \/ AccessorEnds \/ HandlerEnds \/ SimulationEnds \/ ExecEnds \/ OutOfGas
    PROVE  Held'
<1>1. stack # <<>> => Top \in Call /\ Plain(Top) /\ world \in World
  <2> SUFFICES ASSUME stack # <<>> PROVE Top \in Call /\ Plain(Top) /\ world \in World
    OBVIOUS
  <2>1. Len(stack) \in 1..Len(stack)
    BY StackFacts
  <2> QED
    BY <2>1, StackFacts DEF Top, FrameInv
<1>2. ASSUME stack # <<>>, Top.kind # "exec", Return
      PROVE  Held'
  <2>1. ~Holds(Top)
    BY <1>1, <1>2 DEF Plain, Holds
  <2>2. stack' = Rest /\ (Up(world') <=> Up(world))
    BY <1>2 DEF Return
  <2> QED
    BY <1>2, <2>1, <2>2, LeaveHeld
<1>3. CASE BatchEnds
  BY <1>2, <1>3, RevertHeld DEF BatchEnds, Ending
<1>4. CASE AccessorEnds
  BY <1>2, <1>4 DEF AccessorEnds, Ending
<1>8. CASE HandlerEnds
  BY <1>2, <1>8, RevertHeld DEF HandlerEnds, Ending
<1>5. CASE SimulationEnds
  BY <1>5, RevertHeld DEF SimulationEnds, Ending
<1>6. CASE OutOfGas
  BY <1>6, RevertHeld DEF OutOfGas
<1>7. CASE ExecEnds
  <2>1. CASE RevertTop
    BY <1>7, <2>1, RevertHeld DEF ExecEnds, Ending
  <2>2. CASE ~(Top.failed /\ ~Top.entry.tx.tolerant)
    <3>1. stack # <<>> /\ stack' = Rest
      BY <1>7, <2>2 DEF ExecEnds, Ending
    <3>2. PICK l, x : /\ l = Left(Top.guard, world.guards, Top.entry.tx.item, Top.entry.nonce)
                      /\ x = world.log \cup {[Top.entry EXCEPT !.ok = ~Top.failed]}
      OBVIOUS
    <3>3. world' = [world EXCEPT !.guards = l, !.log = x]
      BY <1>7, <2>2, <3>2 DEF ExecEnds
    <3>4. world'.guards = l /\ world.guards \in [active : BOOLEAN, txNonces : SUBSET (Item \X Nat)]
      BY <1>1, <3>1, <3>3 DEF World
    <3>5. CASE Holds(Top)
      <4>1. l = Lower(world.guards)
        BY <3>2, <3>5 DEF Left, Holds
      <4>2. ~l.active
        BY <3>4, <4>1 DEF Lower
      <4> QED
        BY <3>1, <3>4, <3>5, <4>2, LeaveHeld DEF Up
    <3>6. CASE ~Holds(Top)
      <4>1. l.active = world.guards.active
        BY <3>2, <3>4, <3>6 DEF Left, Holds, Erase
      <4>2. Up(world') <=> Up(world)
        BY <3>4, <4>1 DEF Up
      <4> QED
        BY <3>1, <3>6, <4>2, LeaveHeld
    <3> QED
      BY <3>5, <3>6
  <2> QED
    BY <1>7, <2>1, <2>2 DEF ExecEnds
<1> QED
  BY <1>3, <1>4, <1>5, <1>6, <1>7, <1>8

\* Only a transaction has a guard.
LEMMA PlainEnters ==
    ASSUME IInv, Held, stack = <<>> \/ Running,
           NEW kind \in {"batch", "callOnly", "accessor", "handler", "simulation"},
           NEW a \in Party, NEW todo \in Seq(Item), Enter(Frame(kind, a, todo)), UNCHANGED world
    PROVE  Held'
<1>1. PICK f : f = Frame(kind, a, todo)
  OBVIOUS
<1>2. f \in Call /\ f.before = world /\ f.guard = "none"
  BY <1>1, FrameFacts
<1>3. stack' = Append(Continued, f) /\ (Up(world') <=> Up(world)) /\ ~Holds(f)
  BY <1>1, <1>2 DEF Enter, Holds
<1> QED
  BY <1>2, <1>3, EnterHeld

LEMMA ExecTransactionHeld ==
    ASSUME IInv, Held, NEW item, Performed(item), execTransaction(item)
    PROVE  Held'
<1>1. /\ item \in Item /\ (stack = <<>> \/ Running) /\ world \in World
      /\ item.to \in Safe /\ Calls(item, "execTransaction")
  BY Sender, StackFacts DEF execTransaction, ToSafe
<1>2. PICK s, tx, nonce, g, by :
          /\ s = item.to /\ tx = item.data.execTransaction /\ nonce = world.nonce[s]
          /\ g = world.guard[s] /\ by = Approvers(s, txHash(s, tx, nonce))
  OBVIOUS
<1>3. s \in Safe /\ tx \in Tx /\ tx.item \in Item /\ nonce \in Nat /\ g \in Guard
  BY <1>1, <1>2, Parameters DEF World, Tx
<1>4. by \subseteq Safe \cup Key
  BY <1>2, <1>3, OwnersFinite DEF Approvers, Confirming
<1>5. CASE Fail
  BY <1>1, <1>5, FailHeld
<1>6. CASE ~Fail
  <2>1. PICK e : e = [safe |-> s, tx |-> tx, nonce |-> nonce, by |-> by, module |-> FALSE, ok |-> FALSE]
    OBVIOUS
  <2>2. PICK f, q : q = <<tx.item>> /\ f = [Frame("exec", s, q) EXCEPT !.entry = e, !.guard = g]
    OBVIOUS
  <2>3. PICK l : l = Entered(g, world.guards, tx.item, nonce)
    OBVIOUS
  <2>4. /\ Allows(g, world.guards, tx.item) /\ stack' = Append(Continued, f)
        /\ world' = [world EXCEPT !.nonce[s] = nonce + 1, !.guards = l]
    BY <1>2, <1>6, <2>1, <2>2, <2>3 DEF execTransaction, Enter
  <2>5. e \in Entry /\ q \in Seq(Item) /\ s \in Party
    BY <1>3, <1>4, <2>1, <2>2 DEF Entry, Party
  <2>6. f \in Call /\ f.before = world /\ f.guard = g
    BY <1>1, <1>3, <2>2, <2>5 DEF Frame, Call
  <2>7. world'.guards = l /\ world.guards \in [active : BOOLEAN, txNonces : SUBSET (Item \X Nat)]
    BY <1>1, <2>4 DEF World
  <2>8. CASE g = "reentrancy"
    <3>1. l = Raise(world.guards)
      BY <2>3, <2>8 DEF Entered
    <3>2. l.active
      BY <2>7, <3>1 DEF Raise
    <3>3. ~Up(world) /\ Up(world')
      BY <2>4, <2>7, <2>8, <3>2 DEF Up, Allows
    <3> QED
      BY <1>1, <2>4, <2>6, <2>8, <3>3, EnterHeld DEF Holds
  <2>9. CASE g # "reentrancy"
    <3>1. l.active = world.guards.active
      <4>1. PICK c, x : c = world.guards /\ x = tx.item
        OBVIOUS
      <4>2. l = Entered(g, c, x, nonce) /\ c \in [active : BOOLEAN, txNonces : SUBSET (Item \X Nat)]
        BY <2>3, <2>7, <4>1
      <4>3. l.active = c.active
        BY <2>9, <4>2 DEF Entered, Record
      <4> QED
        BY <4>1, <4>3
    <3>2. Up(world') <=> Up(world)
      BY <2>7, <3>1 DEF Up
    <3>3. ~Holds(f)
      BY <2>6, <2>9 DEF Holds
    <3> QED
      BY <1>1, <2>4, <2>6, <3>2, <3>3, EnterHeld
  <2> QED
    BY <2>8, <2>9
<1> QED
  BY <1>5, <1>6

LEMMA ExecTransactionFromModuleHeld ==
    ASSUME IInv, Held, NEW item, Performed(item), execTransactionFromModule(item)
    PROVE  Held'
<1>1. /\ item \in Item /\ (stack = <<>> \/ Running) /\ world \in World
      /\ item.to \in Safe /\ item.data.execTransactionFromModule \in Item
  BY Sender, StackFacts, Parameters DEF execTransactionFromModule, ToSafe
<1>2. PICK s, i, tx, nonce :
          /\ s = item.to /\ i = item.data.execTransactionFromModule /\ tx = [item |-> i, tolerant |-> TRUE]
          /\ nonce = world.ordered[s]
  OBVIOUS
<1>3. s \in Safe /\ i \in Item /\ tx \in Tx /\ tx.item = i /\ nonce \in Nat
  BY <1>1, <1>2 DEF World, Tx
<1>4. CASE Fail
  BY <1>1, <1>4, FailHeld
<1>5. CASE ~Fail
  <2>1. PICK e : e = [safe |-> s, tx |-> tx, nonce |-> nonce, by |-> {}, module |-> TRUE, ok |-> FALSE]
    OBVIOUS
  <2>2. PICK f, q : q = <<tx.item>> /\ f = [Frame("exec", s, q) EXCEPT !.entry = e]
    OBVIOUS
  <2>3. stack' = Append(Continued, f) /\ world' = [world EXCEPT !.ordered[s] = nonce + 1]
    BY <1>2, <1>5, <2>1, <2>2 DEF execTransactionFromModule, Enter
  <2>4. e \in Entry /\ q \in Seq(Item) /\ s \in Party
    BY <1>3, <2>1, <2>2 DEF Entry, Party
  <2>5. f \in Call /\ f.before = world /\ f.guard = "none"
    BY <1>1, <1>3, <2>2, <2>4 DEF Frame, Call, Guard
  <2>6. world'.guards = world.guards
    BY <1>1, <2>3, WorldType
  <2> QED
    BY <1>1, <2>3, <2>5, <2>6, EnterHeld DEF Holds, Up
<1> QED
  BY <1>4, <1>5

LEMMA PerformHeld ==
    ASSUME IInv, Held, NEW item, Performed(item), Perform(item)
    PROVE  Held'
<1>1. /\ item \in Item /\ (stack = <<>> \/ Running) /\ world \in World
      /\ (item.operation = "delegatecall" => sender \in Safe)
  BY Sender, StackFacts
<1>2. CASE Fail
  BY <1>1, <1>2, FailHeld
<1>3. CASE stack' = Continued /\ world'.guards = world.guards
  BY <1>1, <1>3, DoHeld
<1>4. self(item) \in Safe \/ self(item) = item.to
  BY <1>1, Parameters DEF self
<1>5. ASSUME item.to \in Library PROVE self(item) \in Party
  BY <1>4, <1>5 DEF Party
<1>6. ASSUME multiSend(item), ~Fail PROVE Held'
  <2>1. /\ item.data.multiSend \in Seq(Item) /\ item.to \in Library
        /\ Enter(Frame("batch", self(item), item.data.multiSend)) /\ UNCHANGED world
    BY <1>1, <1>6, Parameters DEF multiSend, Library
  <2> QED
    BY <1>1, <1>5, <2>1, PlainEnters
<1>7. ASSUME multiSendCallOnly(item) PROVE Held'
  <2>1. /\ item.data.multiSend \in Seq(Item) /\ item.to \in Library
        /\ Enter(Frame("callOnly", self(item), item.data.multiSend)) /\ UNCHANGED world
    BY <1>1, <1>7, Parameters DEF multiSendCallOnly, Library
  <2> QED
    BY <1>1, <1>5, <2>1, PlainEnters
<1>8. ASSUME simulate(item), ~Fail PROVE Held'
  <2>1. /\ item.data.simulate \in Item /\ item.to \in Library
        /\ Enter(Frame("accessor", self(item), <<item.data.simulate>>)) /\ UNCHANGED world
    BY <1>1, <1>8, Parameters DEF simulate, Library
  <2>2. PICK q : q = <<item.data.simulate>>
    OBVIOUS
  <2>3. q \in Seq(Item) /\ Enter(Frame("accessor", self(item), q))
    BY <2>1, <2>2
  <2> QED
    BY <1>1, <1>5, <2>1, <2>3, PlainEnters
<1>9. ASSUME simulateAndRevert(item) PROVE Held'
  <2>1. /\ item.data.simulateAndRevert \in Item /\ item.to \in Party
        /\ Enter(Frame("simulation", item.to, <<item.data.simulateAndRevert>>)) /\ UNCHANGED world
    BY <1>1, <1>9, Parameters DEF simulateAndRevert, ToSafe, Party
  <2>2. PICK q : q = <<item.data.simulateAndRevert>>
    OBVIOUS
  <2>3. q \in Seq(Item) /\ Enter(Frame("simulation", item.to, q))
    BY <2>1, <2>2
  <2> QED
    BY <1>1, <2>1, <2>3, PlainEnters
<1>10. ASSUME simulateByHandler(item), ~(stack' = Continued /\ world'.guards = world.guards) PROVE Held'
  <2>1. PICK call : call = Send(item.to, [simulateAndRevert |-> item.data.simulateByHandler])
    OBVIOUS
  <2>2. call \in Item /\ "handler" \in Party /\ Enter(Frame("handler", "handler", <<call>>)) /\ UNCHANGED world
    BY <1>1, <1>10, <2>1, Parameters DEF simulateByHandler, Do, Party
  <2>3. PICK q : q = <<call>>
    OBVIOUS
  <2>4. q \in Seq(Item) /\ Enter(Frame("handler", "handler", q))
    BY <2>2, <2>3
  <2> QED
    BY <1>1, <2>2, <2>4, PlainEnters
<1>11. ASSUME signMessage(item), ~Fail PROVE stack' = Continued /\ world'.guards = world.guards
  <2>1. PICK x : x = world.signed \cup {<<self(item), item.data.signMessage>>}
    OBVIOUS
  <2>2. stack' = Continued /\ world' = [world EXCEPT !.signed = x]
    BY <1>11, <2>1 DEF signMessage, Do
  <2> QED
    BY <1>1, <2>2, WorldType
<1>12. ASSUME migrate(item), ~Fail PROVE stack' = Continued /\ world'.guards = world.guards
  BY <1>1, <1>12, WorldType DEF migrate, Do
<1>13. ASSUME setGuard(item), ~Fail PROVE stack' = Continued /\ world'.guards = world.guards
  BY <1>1, <1>13, WorldType DEF setGuard, Do
<1>14. ASSUME setFallbackHandler(item), ~Fail PROVE stack' = Continued /\ world'.guards = world.guards
  BY <1>1, <1>14, WorldType DEF setFallbackHandler, Do
<1>15. ASSUME Foreign(item), ~Fail PROVE stack' = Continued /\ world'.guards = world.guards
  BY <1>1, <1>15, WorldType DEF Foreign, Do
<1>16. ASSUME approveHash(item), ~Fail PROVE stack' = Continued /\ world'.guards = world.guards
  BY <1>1, <1>16, WorldType DEF approveHash, Do
<1>17. ASSUME enableModule(item) \/ disableModule(item), ~Fail
       PROVE  stack' = Continued /\ world'.guards = world.guards
  BY <1>1, <1>17, WorldType DEF enableModule, disableModule, Do
<1> QED
  BY <1>2, <1>3, <1>6, <1>7, <1>8, <1>9, <1>10, <1>11, <1>12, <1>13, <1>14, <1>15, <1>16, <1>17,
     ExecTransactionHeld, ExecTransactionFromModuleHeld
  DEF Perform

LEMMA NextHeld ==
    ASSUME IInv, Held, [Next]_vars
    PROVE  Held'
<1>1. CASE stack = <<>> /\ \E item \in Outside : Perform(item)
  <2>1. PICK item \in Outside : Perform(item)
    BY <1>1
  <2> QED
    BY <1>1, <2>1, PerformHeld DEF Performed
<1>2. CASE NextItem
  <2>1. CASE TooDeep \/ Refused(Head(Top.todo))
    BY <1>2, <2>1, FailHeld DEF NextItem
  <2>2. CASE ~(TooDeep \/ Refused(Head(Top.todo)))
    BY <1>2, <2>2, PerformHeld DEF NextItem, Performed
  <2> QED
    BY <2>1, <2>2
<1>3. CASE BatchEnds \/ AccessorEnds \/ HandlerEnds \/ SimulationEnds \/ ExecEnds \/ OutOfGas
  BY <1>3, EndsHeld
<1>4. CASE UNCHANGED vars
  BY <1>4 DEF vars, Held
<1> QED
  BY <1>1, <1>2, <1>3, <1>4 DEF Next

LEMMA InitHeld ==
    ASSUME Init
    PROVE  Held
<1>1. Len(stack) = 0 /\ ~Up(world)
  BY DEF Init, FreshGuards, Up
<1> QED
  BY <1>1 DEF Held, HeldInv, One

LEMMA OneIsHeld ==
    ASSUME IInv, Held
    PROVE  SharedGuardHeld
<1> DEFINE held == {i \in DOMAIN stack : stack[i].guard = "reentrancy"}
<1>1. DOMAIN stack = 1..Len(stack) /\ One(stack, Len(stack), world)
  BY StackFacts DEF Held, HeldInv
<1>2. CASE Up(world)
  <2>1. PICK i \in 1..Len(stack) : Holds(stack[i])
    BY <1>1, <1>2 DEF One
  <2>2. held = {i}
    BY <1>1, <2>1 DEF One, Holds
  <2>3. Cardinality(held) = 1
    BY <2>2, FS_Singleton
  <2> QED
    BY <1>2, <2>3 DEF SharedGuardHeld, Up
<1>3. CASE ~Up(world)
  <2>1. held = {}
    BY <1>1, <1>3 DEF One, Holds
  <2>2. Cardinality(held) = 0
    BY <2>1, FS_EmptySet
  <2> QED
    BY <1>3, <2>2 DEF SharedGuardHeld, Up
<1> QED
  BY <1>2, <1>3

\* The flag of the shared ReentrancyTransactionGuard is up exactly while one
\* transaction that it let in is under way, whatever simulations, reverts
\* and changes of guards come between.
THEOREM GuardHeld == Spec => []SharedGuardHeld
<1>1. Init => Held
  BY InitHeld
<1>2. IInv /\ Held /\ [Next]_vars => Held'
  BY NextHeld
<1>3. IInv /\ Held => SharedGuardHeld
  BY OneIsHeld
<1> QED
  BY <1>1, <1>2, <1>3, Invariance, PTL DEF Spec

-----------------------------------------------------------------------------
(* What was asked for is done.  Every call in progress has a plan p: how many *)
(* levels of calls its list stands for, how far the touches of each Safe may  *)
(* and must exceed those that transactions in the log asked for when it ends, *)
(* and what must be done by then.                                             *)

Plan == [rank : 0..MaxDepth, most : [Safe -> Int], least : [Safe -> Int], pledge : SUBSET Item]

Finished(w, s) == {e \in w.log : e.safe = s /\ e.ok}

Owed(inside, w, s) == SumFunctionOnSet([e \in Finished(w, s) |-> Touches(inside, e.tx)], Finished(w, s))

Excess(inside, w, s) == w.touched[s] - Owed(inside, w, s)

Delivered(w, s, item) ==
    /\ Is(item, "SignMessageLib", "delegatecall", "signMessage") => <<s, item.data.signMessage>> \in w.signed
    /\ Is(item, "Migration", "delegatecall", "migrate") => s \in w.migrated

\* The failure of its calls is no failure of f.
Lenient(f) == f.kind \in {"accessor", "handler"}

\* What the calls that f still has to make will add for s: at most and, as
\* long as f does not fail, at least.
Coming(f, p, s) == IF f.self = s THEN Amount(TouchesAt(All)[p.rank], f.todo) ELSE 0

Certain(f, p, s) ==
    IF f.self = s /\ ~Lenient(f) THEN Amount(TouchesAt(Sure)[p.rank], f.todo) ELSE 0

Pending(f, p, item) ==
    ~Lenient(f) /\ \E j \in DOMAIN f.todo : item \in PartsAt(Sure)[p.rank][f.todo[j]]

AtMost(f, p, w) == \A s \in Safe : Excess(All, w, s) + Coming(f, p, s) <= p.most[s]

AtLeast(f, p, w) == \A s \in Safe : Excess(Sure, w, s) + Certain(f, p, s) >= p.least[s]

Honoured(f, p, w) ==
    f.self \in Safe => \A item \in p.pledge : Delivered(w, f.self, item) \/ Pending(f, p, item)

Untouched(f, w) ==
    \A s \in Safe : /\ Excess(All, w, s) <= Excess(All, f.before, s)
                    /\ Excess(Sure, w, s) >= Excess(Sure, f.before, s)

Grown(w, w2) == w.signed \subseteq w2.signed /\ w.migrated \subseteq w2.migrated

\* The call works in the name of the Safe whose code made it.
Delegated(f) == f.kind \in {"batch", "callOnly", "accessor"} /\ f.self \in Safe

\* What holds of the call f in the world w: the world now, when f makes the
\* next call, or that from before the call f waits for, which is a delegated
\* one when mode is "lent".
Covered(f, p, w, mode) ==
    /\ Grown(f.before, w) /\ AtMost(f, p, w)
    /\ Lenient(f) \/ (~f.failed /\ mode # "lent") => AtLeast(f, p, w) /\ Honoured(f, p, w)
    /\ f.kind = "exec" /\ (f.failed \/ f.todo # <<>> \/ mode # "now") => Untouched(f, w)

\* The transactions of a Safe and the orders of its modules are numbered.
Count(w, e) == IF e.module THEN w.ordered[e.safe] ELSE w.nonce[e.safe]

SameBook(e, d) == e.safe = d.safe /\ (e.module <=> d.module)

SameCounts(w, w2) == w2.nonce = w.nonce /\ w2.ordered = w.ordered

Books(w) ==
    /\ IsFiniteSet(w.log)
    /\ \A e \in w.log : e.nonce < Count(w, e)
    /\ \A e \in w.log : e.ok => \A item \in Parts(Sure, e.tx) : Delivered(w, e.safe, item)

Balanced(w) == \A s \in Safe : Excess(All, w, s) <= 0 /\ Excess(Sure, w, s) >= 0

\* The log has no entry for the transaction in progress.
Opened(f, w) ==
    /\ f.self \in Safe /\ f.entry \in Entry /\ f.entry.safe = f.self
    /\ f.entry.nonce < Count(w, f.entry)
    /\ \A e \in w.log : SameBook(e, f.entry) => e.nonce # f.entry.nonce

OpenNonces(st, k, w) == \A j \in 1..k : st[j].kind = "exec" => Opened(st[j], w)

Recorded(st, g, k, w, mode) ==
    /\ Books(w) /\ OpenNonces(st, k, w)
    /\ IF k = 0 THEN Balanced(w) ELSE Covered(st[k], g[k], w, mode)

\* The plan q of the call h that f delegates is part of the plan p of f.
Delegates(f, p, h, q) ==
    /\ h.self = f.self
    /\ \A s \in Safe : q.most[s] + Coming(f, p, s) <= p.most[s]
    /\ \A s \in Safe : q.least[s] + Certain(f, p, s) >= p.least[s]
    /\ \A item \in p.pledge : item \in q.pledge \/ Pending(f, p, item)

Total(inside, f, s) == IF f.kind = "exec" /\ f.self = s THEN Touches(inside, f.entry.tx) ELSE 0

Alone(f, p) ==
    /\ \A s \in Safe : /\ p.most[s] <= Excess(All, f.before, s) + Total(All, f, s)
                       /\ p.least[s] >= Excess(Sure, f.before, s) + Total(Sure, f, s)
    /\ f.kind = "exec" => Parts(Sure, f.entry.tx) \subseteq p.pledge /\ f.entry.nonce = Count(f.before, f.entry)

Planned(st, g, k) ==
    /\ g[k] \in Plan /\ g[k].rank >= MaxDepth - k + 1
    /\ Delegated(st[k]) => k > 1 /\ Delegates(st[k - 1], g[k - 1], st[k], g[k])
    /\ ~Delegated(st[k]) /\ st[k].kind # "simulation" => Alone(st[k], g[k])

Mode(f) == IF Delegated(f) THEN "lent" ELSE "waiting"

Under(st, g, n) ==
    \A k \in 1..n : Planned(st, g, k) /\ Recorded(st, g, k - 1, st[k].before, Mode(st[k]))

Accounts(st, g, n, w) == Under(st, g, n) /\ Recorded(st, g, n, w, "now")

-----------------------------------------------------------------------------
(* Worlds *)

LEMMA TouchesOfTx ==
    ASSUME NEW inside \in InsideType, NEW tx \in Tx
    PROVE  Touches(inside, tx) \in Nat
<1>1. MaxDepth \in 0..MaxDepth /\ tx.item \in Item
  BY NetworkAssumption DEF Tx
<1> QED
  BY <1>1, TouchesNatural DEF Touches

LEMMA OwedNatural ==
    ASSUME NEW inside \in InsideType, NEW w \in World, IsFiniteSet(w.log), NEW s
    PROVE  /\ IsFiniteSet(Finished(w, s)) /\ Owed(inside, w, s) \in Nat
           /\ AreNatural([e \in Finished(w, s) |-> Touches(inside, e.tx)], Finished(w, s))
<1>1. Finished(w, s) \in SUBSET w.log
  BY DEF Finished
<1>2. IsFiniteSet(Finished(w, s))
  BY <1>1, FS_Subset
<1>3. \A e \in Finished(w, s) : Touches(inside, e.tx) \in Nat
  <2> SUFFICES ASSUME NEW e \in Finished(w, s) PROVE Touches(inside, e.tx) \in Nat
    OBVIOUS
  <2>1. e \in Entry
    BY <1>1 DEF World
  <2>2. e.tx \in Tx
    BY <2>1 DEF Entry
  <2> QED
    BY <2>2, TouchesOfTx
<1> DEFINE f == [e \in Finished(w, s) |-> Touches(inside, e.tx)]
           F == Finished(w, s)
<1>4. AreNatural(f, F)
  BY <1>3 DEF AreNatural
<1> HIDE DEF f, F
<1>5. SumFunctionOnSet(f, F) \in Nat
  BY <1>2, <1>4, SumNatural DEF F
<1> QED
  BY <1>2, <1>4, <1>5 DEF Owed, f, F

LEMMA ExcessInteger ==
    ASSUME NEW w \in World, IsFiniteSet(w.log), NEW s \in Safe
    PROVE  Excess(All, w, s) \in Int /\ Excess(Sure, w, s) \in Int
<1>1. w.touched[s] \in Nat
  BY DEF World
<1>2. Owed(All, w, s) \in Nat /\ Owed(Sure, w, s) \in Nat
  BY AllInside, OwedNatural
<1> QED
  BY <1>1, <1>2 DEF Excess

LEMMA ExcessMoves ==
    ASSUME NEW inside, NEW w, NEW w2, NEW s, NEW x \in Nat,
           w.touched[s] \in Nat, w2.touched[s] = w.touched[s] + x, w2.log = w.log, Owed(inside, w, s) \in Nat
    PROVE  Excess(inside, w2, s) = Excess(inside, w, s) + x
<1>1. Owed(inside, w2, s) = Owed(inside, w, s)
  BY DEF Owed, Finished
<1> QED
  BY <1>1 DEF Excess

\* A transaction that the log has no entry for is added.
LEMMA ExcessLogged ==
    ASSUME NEW inside \in InsideType, NEW w \in World, IsFiniteSet(w.log), NEW e \in Entry, e \notin w.log,
           NEW w2 \in World, w2.touched = w.touched, w2.log = w.log \cup {e}, NEW s \in Safe
    PROVE  Excess(inside, w2, s) = Excess(inside, w, s) - (IF e.ok /\ e.safe = s THEN Touches(inside, e.tx) ELSE 0)
<1>1. IsFiniteSet(w2.log)
  BY FS_AddElement
<1> DEFINE F == Finished(w, s)
           F2 == Finished(w2, s)
           f == [d \in F |-> Touches(inside, d.tx)]
           f2 == [d \in F2 |-> Touches(inside, d.tx)]
<1>2. /\ Owed(inside, w, s) = SumFunctionOnSet(f, F) /\ Owed(inside, w2, s) = SumFunctionOnSet(f2, F2)
      /\ Owed(inside, w, s) \in Nat /\ Owed(inside, w2, s) \in Nat
      /\ IsFiniteSet(F) /\ IsFiniteSet(F2) /\ AreNatural(f, F) /\ AreNatural(f2, F2)
  BY <1>1, OwedNatural DEF Owed
<1>3. w.touched[s] \in Nat
  BY DEF World
<1>4. CASE e.ok /\ e.safe = s
  <2>1. F2 = F \cup {e} /\ e \notin F /\ e \in F2 /\ F2 \ {e} = F
    BY <1>4 DEF Finished
  <2>2. f2[e] = Touches(inside, e.tx) /\ \A d \in F : f2[d] = f[d]
    BY <2>1
  <2> HIDE DEF F, F2, f, f2
  <2>3. SumFunctionOnSet(f2, F2) = f2[e] + SumFunctionOnSet(f2, F)
    BY <1>2, <2>1, SumElement
  <2>4. SumFunctionOnSet(f2, F) = SumFunctionOnSet(f, F)
    BY <1>2, <2>2, SumAgrees
  <2>5. Touches(inside, e.tx) \in Nat
    BY TouchesOfTx DEF Entry
  <2> QED
    BY <1>2, <1>3, <1>4, <2>2, <2>3, <2>4, <2>5 DEF Excess
<1>5. CASE ~(e.ok /\ e.safe = s)
  <2>1. F2 = F
    BY <1>5 DEF Finished
  <2> QED
    BY <1>2, <1>3, <1>5, <2>1 DEF Excess
<1> QED
  BY <1>4, <1>5

LEMMA DeliveredGrows ==
    ASSUME NEW w, NEW w2, Grown(w, w2), NEW s, NEW item, Delivered(w, s, item)
    PROVE  Delivered(w2, s, item)
  BY DEF Delivered, Grown

LEMMA GrownOn ==
    ASSUME NEW w, NEW w1, NEW w2, Grown(w, w1), Grown(w1, w2)
    PROVE  Grown(w, w2)
  BY DEF Grown

-----------------------------------------------------------------------------
(* A call of the list *)

Like(f, h) == h.kind = f.kind /\ h.self = f.self /\ h.before = f.before /\ h.entry = f.entry

\* h is f without the first call of its list.
Popped(f, h) == f \in Call /\ h \in Call /\ f.todo # <<>> /\ h.todo = Tail(f.todo) /\ Like(f, h)

ComingFirst(f, p, s) == IF f.self = s THEN TouchesAt(All)[p.rank][Head(f.todo)] ELSE 0

CertainFirst(f, p, s) ==
    IF f.self = s /\ ~Lenient(f) THEN TouchesAt(Sure)[p.rank][Head(f.todo)] ELSE 0

\* The first call makes none and turns the world w into w2.
Single(f, w, w2) ==
    /\ Binding(Head(f.todo)) = <<>>
    /\ w2.log = w.log /\ Grown(w, w2)
    /\ \A s \in Safe : w2.touched[s] = w.touched[s] + (IF s = f.self THEN Own(Head(f.todo)) ELSE 0)
    /\ f.self \in Safe => Delivered(w2, f.self, Head(f.todo))

LEMMA RankFacts ==
    ASSUME NEW p \in Plan
    PROVE  /\ p.rank \in 0..MaxDepth /\ p.rank \in Nat
           /\ TouchesAt(All)[p.rank] \in [Item -> Nat] /\ TouchesAt(Sure)[p.rank] \in [Item -> Nat]
           /\ \A s \in Safe : p.most[s] \in Int /\ p.least[s] \in Int
           /\ p.pledge \subseteq Item
<1>1. p.rank \in 0..MaxDepth /\ (\A s \in Safe : p.most[s] \in Int /\ p.least[s] \in Int) /\ p.pledge \subseteq Item
  BY DEF Plan
<1>2. TouchesAt(All)[p.rank] \in [Item -> Nat] /\ TouchesAt(Sure)[p.rank] \in [Item -> Nat]
  BY <1>1, AllInside, TouchesNatural
<1>3. p.rank \in Nat
  BY <1>1
<1> QED
  BY <1>1, <1>2, <1>3

LEMMA DueNatural ==
    ASSUME NEW f \in Call, NEW p \in Plan, NEW s \in Safe
    PROVE  Coming(f, p, s) \in Nat /\ Certain(f, p, s) \in Nat
<1>1. f.todo \in Seq(Item)
  BY DEF Call
<1>2. Amount(TouchesAt(All)[p.rank], f.todo) \in Nat /\ Amount(TouchesAt(Sure)[p.rank], f.todo) \in Nat
  BY <1>1, RankFacts, AmountNatural
<1> QED
  BY <1>2 DEF Coming, Certain

LEMMA DueEmpty ==
    ASSUME NEW f, f.todo = <<>>, NEW p, NEW s
    PROVE  Coming(f, p, s) = 0 /\ Certain(f, p, s) = 0 /\ \A item : ~Pending(f, p, item)
  BY AmountEmpty DEF Coming, Certain, Pending

LEMMA DuePopped ==
    ASSUME NEW f, NEW h, Popped(f, h), NEW p \in Plan, NEW s \in Safe
    PROVE  /\ Coming(f, p, s) = ComingFirst(f, p, s) + Coming(h, p, s)
           /\ Certain(f, p, s) = CertainFirst(f, p, s) + Certain(h, p, s)
           /\ ComingFirst(f, p, s) \in Nat /\ CertainFirst(f, p, s) \in Nat
           /\ Coming(h, p, s) \in Nat /\ Certain(h, p, s) \in Nat
<1>1. f.todo \in Seq(Item) /\ f.todo # <<>> /\ h.todo = Tail(f.todo) /\ h.self = f.self /\ h.kind = f.kind
  BY DEF Popped, Call, Like
<1>2. Head(f.todo) \in Item
  BY <1>1, TailOf
<1>3. /\ Amount(TouchesAt(All)[p.rank], f.todo) = TouchesAt(All)[p.rank][Head(f.todo)] + Amount(TouchesAt(All)[p.rank], h.todo)
      /\ Amount(TouchesAt(Sure)[p.rank], f.todo) = TouchesAt(Sure)[p.rank][Head(f.todo)] + Amount(TouchesAt(Sure)[p.rank], h.todo)
  BY <1>1, RankFacts, AmountTail
<1>4. ComingFirst(f, p, s) \in Nat /\ CertainFirst(f, p, s) \in Nat
  BY <1>2, RankFacts DEF ComingFirst, CertainFirst
<1>5. Coming(h, p, s) \in Nat /\ Certain(h, p, s) \in Nat
  BY DueNatural DEF Popped
<1> QED
  BY <1>1, <1>3, <1>4, <1>5 DEF Coming, Certain, ComingFirst, CertainFirst, Lenient

LEMMA PendingPopped ==
    ASSUME NEW f, NEW h, Popped(f, h), NEW p, NEW item, Pending(f, p, item)
    PROVE  Pending(h, p, item) \/ (~Lenient(f) /\ item \in PartsAt(Sure)[p.rank][Head(f.todo)])
<1>1. f.todo \in Seq(Item) /\ f.todo # <<>> /\ h.todo = Tail(f.todo) /\ h.kind = f.kind
  BY DEF Popped, Call, Like
<1>2. ~Lenient(f) /\ \E j \in DOMAIN f.todo : item \in PartsAt(Sure)[p.rank][f.todo[j]]
  BY DEF Pending
<1>3. PICK j \in DOMAIN f.todo : item \in PartsAt(Sure)[p.rank][f.todo[j]]
  BY <1>2
<1>4. CASE j = 1
  BY <1>1, <1>2, <1>3, <1>4, TailOf
<1>5. CASE j # 1
  <2>1. j - 1 \in DOMAIN h.todo /\ h.todo[j - 1] = f.todo[j]
    BY <1>1, <1>5
  <2> QED
    BY <1>1, <1>2, <1>3, <2>1 DEF Pending, Lenient
<1> QED
  BY <1>4, <1>5

LEMMA SingleFacts ==
    ASSUME NEW d \in 0..MaxDepth, NEW item \in Item
    PROVE  /\ Own(item) \in Nat /\ Own(item) <= TouchesAt(All)[d][item]
           /\ Binding(item) = <<>> =>
                 /\ PartsAt(Sure)[d][item] = {item}
                 /\ TouchesAt(Sure)[d][item] = Own(item)
<1>1. All \in InsideType /\ Sure \in InsideType /\ Sure[item] = Binding(item) /\ All[item] \in Seq(Item)
  BY AllInside DEF InsideType
<1>2. Own(item) \in Nat
  BY DEF Own
<1>3. d \in Nat /\ (d # 0 => d - 1 \in 0..MaxDepth) /\ 0 \in 0..MaxDepth
  BY NetworkAssumption
<1>4. CASE d = 0
  <2>0. /\ TouchesAt(All)[d] = TouchesWith(All, TouchesAt(All), d)
        /\ TouchesAt(Sure)[d] = TouchesWith(Sure, TouchesAt(Sure), d)
    BY <1>1, TouchesSolve
  <2>1. TouchesAt(All)[d][item] = Own(item) /\ TouchesAt(Sure)[d][item] = Own(item)
    BY <1>2, <1>4, <2>0 DEF TouchesWith
  <2>2. PartsAt(Sure)[d][item] = {item}
    BY <1>1, <1>4, PartsSolve
  <2> QED
    BY <1>2, <2>1, <2>2
<1>5. CASE d # 0
  <2>1. TouchesAt(All)[d - 1] \in [Item -> Nat]
    BY <1>1, <1>3, <1>5, TouchesNatural
  <2>2. Amount(TouchesAt(All)[d - 1], All[item]) \in Nat
    BY <1>1, <2>1, AmountNatural
  <2>3. TouchesAt(All)[d][item] = Own(item) + Amount(TouchesAt(All)[d - 1], All[item])
    BY <1>1, <1>5, TouchesInside
  <2>4. ASSUME Binding(item) = <<>>
        PROVE  TouchesAt(Sure)[d][item] = Own(item)
    <3>1. TouchesAt(Sure)[d][item] = Own(item) + Amount(TouchesAt(Sure)[d - 1], Sure[item])
      BY <1>1, <1>5, TouchesInside
    <3>2. Amount(TouchesAt(Sure)[d - 1], Sure[item]) = 0
      BY <1>1, <2>4, AmountEmpty
    <3> QED
      BY <1>2, <3>1, <3>2
  <2>5. ASSUME Binding(item) = <<>>
        PROVE  PartsAt(Sure)[d][item] = {item}
    <3>1. PartsAt(Sure)[d][item] = {item} \cup PartsBelow(Sure, PartsAt(Sure)[d - 1], item)
      BY <1>1, <1>5, PartsSolve
    <3>2. DOMAIN Sure[item] = {}
      BY <1>1, <2>5
    <3> QED
      BY <3>1, <3>2 DEF PartsBelow
  <2> QED
    BY <1>2, <2>2, <2>3, <2>4, <2>5
<1> QED
  BY <1>4, <1>5

\* f waits for the first call, or that call failed.
LEMMA Waits ==
    ASSUME NEW f, NEW h, Popped(f, h), ~f.failed, NEW p \in Plan, NEW w \in World, IsFiniteSet(w.log),
           Covered(f, p, w, "now"), NEW mode, mode = "lent" \/ h.failed
    PROVE  Covered(h, p, w, mode)
<1>1. h.kind = f.kind /\ h.self = f.self /\ h.before = f.before /\ f.todo # <<>>
  BY DEF Popped, Like
<1>2. AtMost(h, p, w)
  <2> SUFFICES ASSUME NEW s \in Safe PROVE Excess(All, w, s) + Coming(h, p, s) <= p.most[s]
    BY DEF AtMost
  <2>1. Excess(All, w, s) + Coming(f, p, s) <= p.most[s]
    BY DEF Covered, AtMost
  <2>2. Excess(All, w, s) \in Int /\ p.most[s] \in Int
    BY ExcessInteger, RankFacts
  <2>3. /\ Coming(f, p, s) = ComingFirst(f, p, s) + Coming(h, p, s)
        /\ ComingFirst(f, p, s) \in Nat /\ Coming(h, p, s) \in Nat
    BY DuePopped
  <2> QED
    BY <2>1, <2>2, <2>3
<1>3. ASSUME Lenient(f)
      PROVE  AtLeast(h, p, w) /\ Honoured(h, p, w)
  <2>1. AtLeast(f, p, w) /\ Honoured(f, p, w)
    BY <1>3 DEF Covered
  <2> QED
    BY <1>1, <1>3, <2>1 DEF AtLeast, Honoured, Certain, Pending, Lenient
<1>4. f.kind = "exec" => Untouched(h, w)
  BY <1>1 DEF Covered, Untouched
<1>5. Lenient(h) <=> Lenient(f)
  BY <1>1 DEF Lenient
<1> QED
  BY <1>1, <1>2, <1>3, <1>4, <1>5 DEF Covered

\* The first call is made and over.
LEMMA Makes ==
    ASSUME NEW f, NEW h, Popped(f, h), ~f.failed, ~h.failed, NEW p \in Plan,
           NEW w \in World, IsFiniteSet(w.log), NEW w2 \in World, Covered(f, p, w, "now"), Single(f, w, w2),
           NEW mode, w2 = w \/ (mode = "now" /\ (f.kind = "exec" => h.todo = <<>>))
    PROVE  Covered(h, p, w2, mode)
<1>1. h.kind = f.kind /\ h.self = f.self /\ h.before = f.before /\ f.todo # <<>> /\ Head(f.todo) \in Item
  <2>1. f.todo \in Seq(Item) /\ f.todo # <<>>
    BY DEF Popped, Call
  <2> QED
    BY <2>1, TailOf DEF Popped, Like
<1>2. PICK item \in Item : item = Head(f.todo)
  BY <1>1
<1>3. /\ Own(item) \in Nat /\ Own(item) <= TouchesAt(All)[p.rank][item]
      /\ PartsAt(Sure)[p.rank][item] = {item} /\ TouchesAt(Sure)[p.rank][item] = Own(item)
  <2>1. Binding(item) = <<>>
    BY <1>2 DEF Single
  <2> QED
    BY <2>1, RankFacts, SingleFacts
<1>4. ASSUME NEW s \in Safe
      PROVE  \E x \in Nat :
                /\ Excess(All, w2, s) = Excess(All, w, s) + x /\ Excess(Sure, w2, s) = Excess(Sure, w, s) + x
                /\ x <= ComingFirst(f, p, s) /\ x >= CertainFirst(f, p, s)
  <2>1. PICK x \in Nat : x = IF s = f.self THEN Own(item) ELSE 0
    BY <1>3
  <2>2. w2.touched[s] = w.touched[s] + x /\ w2.log = w.log
    BY <1>2, <2>1 DEF Single
  <2>3. w.touched[s] \in Nat /\ Owed(All, w, s) \in Nat /\ Owed(Sure, w, s) \in Nat
    BY AllInside, OwedNatural DEF World
  <2>4. Excess(All, w2, s) = Excess(All, w, s) + x /\ Excess(Sure, w2, s) = Excess(Sure, w, s) + x
    BY <2>2, <2>3, ExcessMoves
  <2>5. x <= ComingFirst(f, p, s) /\ x >= CertainFirst(f, p, s)
    BY <1>2, <1>3, <2>1 DEF ComingFirst, CertainFirst
  <2> QED
    BY <2>4, <2>5
<1>5. AtMost(h, p, w2)
  <2> SUFFICES ASSUME NEW s \in Safe PROVE Excess(All, w2, s) + Coming(h, p, s) <= p.most[s]
    BY DEF AtMost
  <2>1. Excess(All, w, s) + Coming(f, p, s) <= p.most[s]
    BY DEF Covered, AtMost
  <2>2. Excess(All, w, s) \in Int /\ p.most[s] \in Int
    BY ExcessInteger, RankFacts
  <2>3. /\ Coming(f, p, s) = ComingFirst(f, p, s) + Coming(h, p, s)
        /\ ComingFirst(f, p, s) \in Nat /\ Coming(h, p, s) \in Nat
    BY DuePopped
  <2>4. PICK x \in Nat : Excess(All, w2, s) = Excess(All, w, s) + x /\ x <= ComingFirst(f, p, s)
    BY <1>4
  <2> QED
    BY <2>1, <2>2, <2>3, <2>4
<1>6. ASSUME AtLeast(f, p, w)
      PROVE  AtLeast(h, p, w2)
  <2> SUFFICES ASSUME NEW s \in Safe PROVE Excess(Sure, w2, s) + Certain(h, p, s) >= p.least[s]
    BY DEF AtLeast
  <2>1. Excess(Sure, w, s) + Certain(f, p, s) >= p.least[s]
    BY <1>6 DEF AtLeast
  <2>2. Excess(Sure, w, s) \in Int /\ p.least[s] \in Int
    BY ExcessInteger, RankFacts
  <2>3. /\ Certain(f, p, s) = CertainFirst(f, p, s) + Certain(h, p, s)
        /\ CertainFirst(f, p, s) \in Nat /\ Certain(h, p, s) \in Nat
    BY DuePopped
  <2>4. PICK x \in Nat : Excess(Sure, w2, s) = Excess(Sure, w, s) + x /\ x >= CertainFirst(f, p, s)
    BY <1>4
  <2> QED
    BY <2>1, <2>2, <2>3, <2>4
<1>7. ASSUME Honoured(f, p, w)
      PROVE  Honoured(h, p, w2)
  <2> SUFFICES ASSUME f.self \in Safe, NEW x \in p.pledge
               PROVE  Delivered(w2, f.self, x) \/ Pending(h, p, x)
    BY <1>1 DEF Honoured
  <2>1. CASE Delivered(w, f.self, x)
    BY <2>1, DeliveredGrows DEF Single
  <2>2. CASE Pending(f, p, x) /\ ~Pending(h, p, x)
    <3>1. x \in PartsAt(Sure)[p.rank][item]
      BY <1>2, <2>2, PendingPopped
    <3> QED
      BY <1>2, <1>3, <3>1 DEF Single
  <2> QED
    BY <1>7, <2>1, <2>2 DEF Honoured
<1>8. Grown(h.before, w2)
  BY <1>1, GrownOn DEF Covered, Single
<1>9. f.kind = "exec" => Untouched(f, w)
  BY <1>1 DEF Covered
<1>10. w2 = w => (f.kind = "exec" => Untouched(h, w2))
  BY <1>1, <1>9 DEF Untouched
<1> QED
  BY <1>1, <1>5, <1>6, <1>7, <1>8, <1>10 DEF Covered

\* The first call of f is that of a library: c makes its calls for f.
Lends(f, c) ==
    /\ f.self \in Safe /\ c.self = f.self /\ c \in Call /\ ~c.failed
    /\ c.kind \in {"batch", "callOnly", "accessor"}
    /\ Head(f.todo).to \in {"MultiSend", "MultiSendCallOnly", "SimulateTxAccessor"}
    /\ c.todo = Inside(Head(f.todo))
    /\ Binding(Head(f.todo)) = IF Lenient(c) THEN <<>> ELSE Inside(Head(f.todo))

LEMMA LentAmounts ==
    ASSUME NEW f, NEW h, Popped(f, h), NEW p \in Plan, p.rank # 0, NEW c, Lends(f, c),
           NEW q \in Plan, q.rank = p.rank - 1, NEW s \in Safe
    PROVE  Coming(c, q, s) = ComingFirst(f, p, s) /\ Certain(c, q, s) >= CertainFirst(f, p, s)
<1>1. f.todo \in Seq(Item) /\ f.todo # <<>>
  BY DEF Popped, Call
<1>2. PICK item \in Item : item = Head(f.todo)
  BY <1>1, TailOf
<1>3. /\ p.rank \in 0..MaxDepth /\ q.rank = p.rank - 1
      /\ All \in InsideType /\ Sure \in InsideType
      /\ All[item] = Inside(item) /\ Sure[item] = Binding(item)
  BY RankFacts, AllInside
<1>4. Own(item) = 0
  BY <1>2 DEF Own, Lends, Library
<1>5. /\ TouchesAt(All)[p.rank][item] = 0 + Amount(TouchesAt(All)[q.rank], Inside(item))
      /\ TouchesAt(Sure)[p.rank][item] = 0 + Amount(TouchesAt(Sure)[q.rank], Binding(item))
  BY <1>3, <1>4, TouchesInside
<1>6. Coming(c, q, s) \in Nat /\ Certain(c, q, s) \in Nat
  BY DueNatural DEF Lends
<1>7. /\ c.self = f.self /\ c.todo = Inside(item)
      /\ Binding(item) = IF Lenient(c) THEN <<>> ELSE Inside(item)
  BY <1>2 DEF Lends
<1>8. Amount(TouchesAt(Sure)[q.rank], <<>>) = 0
  BY AmountEmpty
<1>9. Amount(TouchesAt(All)[q.rank], Inside(item)) \in Nat
  BY <1>3, RankFacts, AmountNatural DEF InsideType
<1>10. Coming(c, q, s) = ComingFirst(f, p, s)
  BY <1>2, <1>5, <1>7, <1>9 DEF Coming, ComingFirst
<1>11. Certain(c, q, s) >= CertainFirst(f, p, s)
  <2>1. CASE f.self = s /\ ~Lenient(f) /\ ~Lenient(c)
    <3>1. Amount(TouchesAt(Sure)[q.rank], Inside(item)) \in Nat
      BY <1>3, RankFacts, AmountNatural DEF InsideType
    <3>2. CertainFirst(f, p, s) = TouchesAt(Sure)[p.rank][item]
      BY <1>2, <2>1 DEF CertainFirst
    <3>3. Certain(c, q, s) = Amount(TouchesAt(Sure)[q.rank], Inside(item))
      BY <1>7, <2>1 DEF Certain
    <3> QED
      BY <1>5, <1>7, <2>1, <3>1, <3>2, <3>3
  <2>2. CASE Lenient(c)
    <3>1. TouchesAt(Sure)[p.rank][item] = 0
      BY <1>5, <1>7, <1>8, <2>2
    <3>2. CertainFirst(f, p, s) = 0
      BY <1>2, <3>1 DEF CertainFirst
    <3> QED
      BY <1>6, <3>2
  <2>3. CASE ~(f.self = s /\ ~Lenient(f))
    BY <1>6, <2>3 DEF CertainFirst
  <2> QED
    BY <2>1, <2>2, <2>3
<1> QED
  BY <1>10, <1>11

LEMMA LentPending ==
    ASSUME NEW f, NEW h, Popped(f, h), NEW p \in Plan, p.rank # 0, NEW c, Lends(f, c),
           NEW q, q.rank = p.rank - 1, NEW w, NEW x, Pending(f, p, x)
    PROVE  Pending(h, p, x) \/ Pending(c, q, x) \/ Delivered(w, f.self, x)
<1>1. f.todo \in Seq(Item) /\ f.todo # <<>>
  BY DEF Popped, Call
<1>2. PICK item \in Item : item = Head(f.todo)
  BY <1>1, TailOf
<1>3. p.rank \in 0..MaxDepth /\ Sure \in InsideType /\ Sure[item] = Binding(item)
  BY RankFacts, AllInside
<1>4. CASE x \in PartsAt(Sure)[p.rank][item]
  <2>1. CASE x = item
    BY <1>2, <2>1 DEF Lends, Delivered, Is
  <2>2. CASE x # item
    <3>1. PICK i \in DOMAIN Sure[item] : x \in PartsAt(Sure)[q.rank][Sure[item][i]]
      BY <1>3, <1>4, <2>2, PartsInside
    <3>2. Binding(item) # <<>>
      BY <1>3, <3>1
    <3>3. ~Lenient(c) /\ c.todo = Sure[item]
      BY <1>2, <1>3, <3>2 DEF Lends
    <3> QED
      BY <3>1, <3>3 DEF Pending
  <2> QED
    BY <2>1, <2>2
<1> QED
  BY <1>2, <1>4, PendingPopped

LEMMA Entrusts ==
    ASSUME NEW f, NEW h, Popped(f, h), ~f.failed, NEW p \in Plan, p.rank # 0, NEW w \in World, IsFiniteSet(w.log),
           Covered(f, p, w, "now"), NEW c, Lends(f, c), c.before = w
    PROVE  \E q \in Plan : q.rank = p.rank - 1 /\ Delegates(h, p, c, q) /\ Covered(c, q, w, "now")
<1>1. h.self = f.self /\ c.self = f.self /\ ~c.failed /\ c.kind # "exec"
  BY DEF Popped, Like, Lends
<1>2. PICK most, least, pledge :
          /\ most = [s \in Safe |-> p.most[s] - Coming(h, p, s)]
          /\ least = [s \in Safe |-> p.least[s] - Certain(h, p, s)]
          /\ pledge = {x \in p.pledge : ~Pending(h, p, x)}
  OBVIOUS
<1>3. /\ p.rank \in 0..MaxDepth /\ p.rank - 1 \in 0..MaxDepth
      /\ (\A s \in Safe : p.most[s] \in Int /\ p.least[s] \in Int) /\ p.pledge \subseteq Item
  <2>1. PICK r \in 0..MaxDepth : r = p.rank
    BY RankFacts
  <2>2. r - 1 \in 0..MaxDepth
    BY <2>1, NetworkAssumption
  <2> QED
    BY <2>1, <2>2, RankFacts
<1>4. \A s \in Safe : /\ Coming(h, p, s) \in Nat /\ Certain(h, p, s) \in Nat
                      /\ Coming(f, p, s) = ComingFirst(f, p, s) + Coming(h, p, s)
                      /\ Certain(f, p, s) = CertainFirst(f, p, s) + Certain(h, p, s)
                      /\ ComingFirst(f, p, s) \in Nat /\ CertainFirst(f, p, s) \in Nat
  BY DuePopped
<1>5. most \in [Safe -> Int] /\ least \in [Safe -> Int] /\ pledge \subseteq Item
  BY <1>2, <1>3, <1>4
<1>6. PICK q : q = [rank |-> p.rank - 1, most |-> most, least |-> least, pledge |-> pledge]
  OBVIOUS
<1>7. /\ q \in Plan /\ q.rank = p.rank - 1
      /\ \A s \in Safe : q.most[s] = p.most[s] - Coming(h, p, s) /\ q.least[s] = p.least[s] - Certain(h, p, s)
      /\ \A x : x \in q.pledge <=> x \in p.pledge /\ ~Pending(h, p, x)
  BY <1>2, <1>3, <1>5, <1>6 DEF Plan
<1>8. Delegates(h, p, c, q)
  BY <1>1, <1>3, <1>4, <1>7 DEF Delegates
<1>9. AtMost(c, q, w)
  <2> SUFFICES ASSUME NEW s \in Safe PROVE Excess(All, w, s) + Coming(c, q, s) <= q.most[s]
    BY DEF AtMost
  <2>1. Coming(c, q, s) = ComingFirst(f, p, s)
    BY <1>7, LentAmounts
  <2>2. Excess(All, w, s) \in Int
    BY ExcessInteger
  <2>3. Excess(All, w, s) + Coming(f, p, s) <= p.most[s]
    BY DEF Covered, AtMost
  <2> QED
    BY <1>3, <1>4, <1>7, <2>1, <2>2, <2>3
<1>10. AtLeast(f, p, w) /\ Honoured(f, p, w)
  BY DEF Covered
<1>11. AtLeast(c, q, w)
  <2> SUFFICES ASSUME NEW s \in Safe PROVE Excess(Sure, w, s) + Certain(c, q, s) >= q.least[s]
    BY DEF AtLeast
  <2>1. Certain(c, q, s) >= CertainFirst(f, p, s) /\ Certain(c, q, s) \in Nat
    BY <1>7, LentAmounts, DueNatural DEF Lends
  <2>2. Excess(Sure, w, s) \in Int
    BY ExcessInteger
  <2>3. Excess(Sure, w, s) + Certain(f, p, s) >= p.least[s]
    BY <1>10 DEF AtLeast
  <2> QED
    BY <1>3, <1>4, <1>7, <2>1, <2>2, <2>3
<1>12. Honoured(c, q, w)
  <2> SUFFICES ASSUME f.self \in Safe, NEW x \in q.pledge
               PROVE  Delivered(w, f.self, x) \/ Pending(c, q, x)
    BY <1>1 DEF Honoured
  <2>1. x \in p.pledge /\ ~Pending(h, p, x)
    BY <1>7
  <2>2. Delivered(w, f.self, x) \/ Pending(f, p, x)
    BY <1>10, <2>1 DEF Honoured
  <2> QED
    BY <1>7, <2>1, <2>2, LentPending
<1>13. Grown(c.before, w)
  BY DEF Grown
<1> QED
  BY <1>1, <1>7, <1>8, <1>9, <1>11, <1>12, <1>13 DEF Covered

\* The worlds differ in nothing that the accounts speak of.
Equal(w, w2) ==
    w2.touched = w.touched /\ w2.log = w.log /\ w2.signed = w.signed /\ w2.migrated = w.migrated

\* c is a call in the name of no other one.
Starts(c, w) ==
    /\ c \in Call /\ ~c.failed /\ c.before = w
    /\ ~Delegated(c) /\ (c.kind = "simulation" \/ c.kind = "exec" \/ c.self \notin Safe)
    /\ c.kind = "exec" => /\ c.entry \in Entry /\ c.self \in Safe /\ c.entry.safe = c.self
                          /\ c.entry.nonce = Count(w, c.entry) /\ c.todo = <<c.entry.tx.item>>

LEMMA EqualExcess ==
    ASSUME NEW w, NEW w2, Equal(w, w2), NEW inside, NEW s
    PROVE  Excess(inside, w2, s) = Excess(inside, w, s)
<1>1. Owed(inside, w2, s) = Owed(inside, w, s)
  BY DEF Owed, Finished, Equal
<1> QED
  BY <1>1 DEF Excess, Equal

LEMMA AmountOne ==
    ASSUME NEW t \in [Item -> Nat], NEW item \in Item
    PROVE  Amount(t, <<item>>) = t[item]
<1>1. PICK q : q = <<item>>
  OBVIOUS
<1>2. q \in Seq(Item) /\ q # <<>> /\ Head(q) = item /\ Tail(q) = <<>>
  BY <1>1, TailOfOne
<1>3. Amount(t, q) = t[item] + Amount(t, <<>>)
  BY <1>2, AmountTail
<1>4. Amount(t, <<>>) = 0 /\ t[item] \in Nat
  BY AmountEmpty
<1> QED
  BY <1>1, <1>3, <1>4

LEMMA DueAlone ==
    ASSUME NEW w, NEW c, Starts(c, w), c.kind # "simulation", NEW q \in Plan, q.rank = MaxDepth, NEW s \in Safe
    PROVE  Coming(c, q, s) = Total(All, c, s) /\ Certain(c, q, s) = Total(Sure, c, s)
<1>1. CASE c.kind = "exec"
  <2>1. PICK item \in Item : item = c.entry.tx.item
    BY <1>1 DEF Starts, Entry, Tx
  <2>2. c.todo = <<item>>
    BY <1>1, <2>1 DEF Starts
  <2>3. /\ Amount(TouchesAt(All)[q.rank], <<item>>) = TouchesAt(All)[q.rank][item]
        /\ Amount(TouchesAt(Sure)[q.rank], <<item>>) = TouchesAt(Sure)[q.rank][item]
    BY RankFacts, AmountOne
  <2> QED
    BY <1>1, <2>1, <2>2, <2>3 DEF Coming, Certain, Total, Touches, Lenient
<1>2. CASE c.kind # "exec"
  BY <1>2 DEF Coming, Certain, Total, Starts
<1> QED
  BY <1>1, <1>2

LEMMA SurePartsAreItems ==
    ASSUME NEW tx \in Tx
    PROVE  Parts(Sure, tx) \subseteq Item
<1> DEFINE p == PartsAt(Sure)
           N == {d \in Nat : d \in 0..MaxDepth => \A item \in Item : p[d][item] \subseteq Item}
<1>0. MaxDepth \in Nat /\ Sure \in InsideType /\ \A item \in Item : \A i \in DOMAIN Sure[item] : Sure[item][i] \in Item
  BY NetworkAssumption, AllInside DEF InsideType
<1>1. 0 \in N
  BY <1>0, PartsSolve
<1>2. ASSUME NEW d \in Nat, d \in N
      PROVE  d + 1 \in N
  <2> SUFFICES ASSUME d + 1 \in 0..MaxDepth, NEW item \in Item, NEW x \in p[d + 1][item] PROVE x \in Item
    OBVIOUS
  <2>1. d \in 0..MaxDepth /\ d + 1 # 0 /\ d + 1 - 1 = d
    BY <1>0
  <2>2. \A it \in Item : p[d][it] \subseteq Item
    BY <1>2, <2>1
  <2> HIDE DEF p, N
  <2>3. CASE x # item
    <3>1. PICK i \in DOMAIN Sure[item] : x \in p[d][Sure[item][i]]
      BY <1>0, <2>1, <2>3, PartsInside DEF p
    <3> QED
      BY <1>0, <2>2, <3>1
  <2> QED
    BY <2>3
<1> HIDE DEF N
<1>3. \A d \in Nat : d \in N
  BY <1>1, <1>2, NaturalInduction
<1>4. MaxDepth \in N /\ MaxDepth \in 0..MaxDepth /\ tx.item \in Item
  BY <1>0, <1>3 DEF Tx
<1> QED
  BY <1>4 DEF N, Parts

LEMMA StartsAlone ==
    ASSUME NEW w \in World, IsFiniteSet(w.log), NEW w2 \in World, Equal(w, w2), NEW c, Starts(c, w)
    PROVE  \E q \in Plan : /\ q.rank = MaxDepth /\ (c.kind # "simulation" => Alone(c, q))
                           /\ Covered(c, q, w2, "now")
<1>0. MaxDepth \in 0..MaxDepth
  BY NetworkAssumption
<1>1. PICK r \in Plan : r.rank = MaxDepth
  <2>1. PICK none : none = [s \in Safe |-> 0]
    OBVIOUS
  <2>2. PICK r : r = [rank |-> MaxDepth, most |-> none, least |-> none, pledge |-> {}]
    OBVIOUS
  <2>3. r \in Plan /\ r.rank = MaxDepth
    BY <1>0, <2>1, <2>2 DEF Plan
  <2> QED
    BY <2>3
<1>2. \A s \in Safe : /\ Excess(All, w, s) \in Int /\ Excess(Sure, w, s) \in Int
                      /\ Coming(c, r, s) \in Nat /\ Certain(c, r, s) \in Nat
  BY ExcessInteger, DueNatural DEF Starts
<1>3. PICK most, least, pledge :
          /\ most = [s \in Safe |-> Excess(All, w, s) + Coming(c, r, s)]
          /\ least = [s \in Safe |-> Excess(Sure, w, s) + Certain(c, r, s)]
          /\ pledge = IF c.kind = "exec" THEN Parts(Sure, c.entry.tx) \cap Item ELSE {}
  OBVIOUS
<1>4. most \in [Safe -> Int] /\ least \in [Safe -> Int] /\ pledge \subseteq Item
  BY <1>2, <1>3
<1>5. PICK q : q = [rank |-> MaxDepth, most |-> most, least |-> least, pledge |-> pledge]
  OBVIOUS
<1>6. /\ q \in Plan /\ q.rank = MaxDepth /\ q.pledge = pledge
      /\ \A s \in Safe : /\ q.most[s] = Excess(All, w, s) + Coming(c, r, s)
                         /\ q.least[s] = Excess(Sure, w, s) + Certain(c, r, s)
  BY <1>0, <1>3, <1>4, <1>5 DEF Plan
<1>7. \A s : Coming(c, q, s) = Coming(c, r, s) /\ Certain(c, q, s) = Certain(c, r, s)
  BY <1>1, <1>6 DEF Coming, Certain
<1>8. c.before = w /\ ~c.failed
  BY DEF Starts
<1>9. ASSUME c.kind # "simulation"
      PROVE  Alone(c, q)
  <2>1. \A s \in Safe : Coming(c, r, s) = Total(All, c, s) /\ Certain(c, r, s) = Total(Sure, c, s)
    BY <1>1, <1>9, DueAlone
  <2>2. \A s \in Safe : /\ q.most[s] <= Excess(All, c.before, s) + Total(All, c, s)
                        /\ q.least[s] >= Excess(Sure, c.before, s) + Total(Sure, c, s)
    BY <1>2, <1>6, <1>8, <2>1
  <2>3. ASSUME c.kind = "exec"
        PROVE  Parts(Sure, c.entry.tx) \subseteq q.pledge
    <3>1. Parts(Sure, c.entry.tx) \subseteq Item
      BY <2>3, SurePartsAreItems DEF Starts, Entry
    <3> QED
      BY <1>3, <1>6, <2>3, <3>1
  <2>4. c.kind = "exec" => c.entry.nonce = Count(c.before, c.entry)
    BY <1>8 DEF Starts
  <2> QED
    BY <2>2, <2>3, <2>4 DEF Alone
<1>10. AtMost(c, q, w2) /\ AtLeast(c, q, w2)
  BY <1>2, <1>6, <1>7, EqualExcess DEF AtMost, AtLeast
<1>11. Honoured(c, q, w2)
  <2> SUFFICES ASSUME c.self \in Safe, NEW x \in q.pledge PROVE Pending(c, q, x)
    BY DEF Honoured
  <2>1. c.kind = "exec" /\ x \in Parts(Sure, c.entry.tx)
    BY <1>3, <1>6
  <2>2. c.todo = <<c.entry.tx.item>>
    BY <2>1 DEF Starts
  <2>3. 1 \in DOMAIN c.todo /\ c.todo[1] = c.entry.tx.item
    BY <2>2
  <2> QED
    BY <1>6, <2>1, <2>3 DEF Pending, Parts, Lenient
<1>12. Grown(c.before, w2) /\ Untouched(c, w2)
  <2>1. Grown(w, w2)
    BY DEF Grown, Equal
  <2>2. Untouched(c, w2)
    BY <1>2, <1>8, EqualExcess DEF Untouched
  <2> QED
    BY <1>8, <2>1, <2>2
<1> QED
  BY <1>6, <1>9, <1>10, <1>11, <1>12 DEF Covered

-----------------------------------------------------------------------------
(* Calls under others *)

LEMMA PlannedSame ==
    ASSUME NEW st, NEW g, NEW k \in Nat, k # 0, NEW st2, NEW g2, Planned(st, g, k),
           Same(st, k - 1, st2), Like(st[k], st2[k]), Same(g, k, g2)
    PROVE  Planned(st2, g2, k)
<1>1. g2[k] = g[k] /\ (k > 1 => g2[k - 1] = g[k - 1] /\ st2[k - 1] = st[k - 1])
  BY DEF Same
<1>2. PICK f, h : f = st[k] /\ h = st2[k]
  OBVIOUS
<1>3. Like(f, h)
  BY <1>2
<1>4. \A e, p, q : Delegates(e, p, f, q) => Delegates(e, p, h, q)
  BY <1>3 DEF Like, Delegates
<1>5. \A q : Alone(f, q) => Alone(h, q)
  BY <1>3 DEF Like, Alone, Total
<1>6. (Delegated(h) <=> Delegated(f)) /\ h.kind = f.kind
  BY <1>3 DEF Like, Delegated
<1> QED
  BY <1>1, <1>2, <1>4, <1>5, <1>6 DEF Planned

LEMMA RecordedSame ==
    ASSUME NEW st, NEW g, NEW k \in Nat, NEW w, NEW mode, Recorded(st, g, k, w, mode),
           NEW st2, NEW g2, Same(st, k, st2), Same(g, k, g2)
    PROVE  Recorded(st2, g2, k, w, mode)
<1>1. OpenNonces(st2, k, w)
  BY DEF Recorded, OpenNonces, Same
<1>2. k # 0 => st2[k] = st[k] /\ g2[k] = g[k]
  BY DEF Same
<1> QED
  BY <1>1, <1>2 DEF Recorded

LEMMA UnderSame ==
    ASSUME NEW st, NEW g, NEW n \in Nat, Under(st, g, n),
           NEW st2, NEW g2, Same(st, n - 1, st2), n # 0 => Like(st[n], st2[n]), Same(g, n, g2)
    PROVE  Under(st2, g2, n)
<1> SUFFICES ASSUME NEW k \in 1..n
             PROVE  Planned(st2, g2, k) /\ Recorded(st2, g2, k - 1, st2[k].before, Mode(st2[k]))
  BY DEF Under
<1>1. k \in Nat /\ k # 0 /\ k - 1 \in Nat
  OBVIOUS
<1>2. Planned(st, g, k) /\ Recorded(st, g, k - 1, st[k].before, Mode(st[k]))
  BY DEF Under
<1>3. Same(st, k - 1, st2) /\ Same(g, k, g2) /\ Same(g, k - 1, g2)
  BY DEF Same
<1>4. Like(st[k], st2[k])
  <2>1. CASE k = n
    BY <2>1
  <2>2. CASE k # n
    <3>1. k \in 1..(n - 1)
      BY <2>2
    <3> QED
      BY <3>1 DEF Same, Like
  <2> QED
    BY <2>1, <2>2
<1>5. Planned(st2, g2, k)
  BY <1>1, <1>2, <1>3, <1>4, PlannedSame
<1>6. Recorded(st2, g2, k - 1, st[k].before, Mode(st[k]))
  BY <1>1, <1>2, <1>3, RecordedSame
<1>7. st2[k].before = st[k].before /\ Mode(st2[k]) = Mode(st[k])
  BY <1>4 DEF Like, Mode, Delegated
<1> QED
  BY <1>5, <1>6, <1>7

LEMMA UnderLess ==
    ASSUME NEW st, NEW g, NEW n \in Nat, n # 0, Under(st, g, n)
    PROVE  /\ Under(st, g, n - 1) /\ Planned(st, g, n)
           /\ Recorded(st, g, n - 1, st[n].before, Mode(st[n]))
  BY DEF Under

\* The call that a stack st ends with becomes the caller of one more.
LEMMA UnderMore ==
    ASSUME NEW st, NEW g, NEW n \in Nat, Under(st, g, n), Planned(st, g, n + 1),
           Recorded(st, g, n, st[n + 1].before, Mode(st[n + 1]))
    PROVE  Under(st, g, n + 1)
<1>1. \A k \in 1..(n + 1) : k \in 1..n \/ k = n + 1
  OBVIOUS
<1>2. (n + 1) - 1 = n
  OBVIOUS
<1> QED
  BY <1>1, <1>2 DEF Under

NoLess(w, w2) == \A s \in Safe : w2.nonce[s] >= w.nonce[s] /\ w2.ordered[s] >= w.ordered[s]

LEMMA CountFacts ==
    ASSUME NEW w \in World, NEW e \in Entry
    PROVE  /\ Count(w, e) \in Nat /\ e.nonce \in Nat
           /\ \A d : SameBook(d, e) => Count(w, d) = Count(w, e)
<1>1. e.safe \in Safe /\ e.nonce \in Nat
  BY DEF Entry
<1>2. w.nonce \in [Safe -> Nat] /\ w.ordered \in [Safe -> Nat]
  BY WorldType
<1>3. w.nonce[e.safe] \in Nat /\ w.ordered[e.safe] \in Nat
  BY <1>1, <1>2
<1> QED
  BY <1>1, <1>3 DEF Count, SameBook

LEMMA CountMoves ==
    ASSUME NEW w \in World, NEW w2 \in World, NoLess(w, w2), NEW e \in Entry
    PROVE  Count(w2, e) >= Count(w, e)
<1>1. e.safe \in Safe
  BY DEF Entry
<1>2. w2.nonce[e.safe] >= w.nonce[e.safe] /\ w2.ordered[e.safe] >= w.ordered[e.safe]
  BY <1>1 DEF NoLess
<1> QED
  BY <1>2 DEF Count

LEMMA SameCountsMove ==
    ASSUME NEW w \in World, NEW w2, SameCounts(w, w2)
    PROVE  NoLess(w, w2) /\ \A e : Count(w2, e) = Count(w, e)
<1>1. \A s \in Safe : w.nonce[s] \in Nat /\ w.ordered[s] \in Nat
  BY WorldType
<1> QED
  BY <1>1 DEF SameCounts, NoLess, Count

LEMMA BooksMove ==
    ASSUME NEW w \in World, Books(w), NEW w2 \in World, w2.log = w.log, NoLess(w, w2), Grown(w, w2)
    PROVE  Books(w2)
<1>1. \A e \in w2.log : e.nonce < Count(w2, e)
  <2> SUFFICES ASSUME NEW e \in w.log PROVE e.nonce < Count(w2, e)
    OBVIOUS
  <2>1. e \in Entry
    BY WorldType
  <2>2. e.nonce \in Nat /\ Count(w, e) \in Nat /\ Count(w2, e) \in Nat /\ Count(w2, e) >= Count(w, e)
    BY <2>1, CountFacts, CountMoves
  <2>3. e.nonce < Count(w, e)
    BY DEF Books
  <2> QED
    BY <2>2, <2>3
<1>2. \A e \in w2.log : e.ok => \A item \in Parts(Sure, e.tx) : Delivered(w2, e.safe, item)
  BY DeliveredGrows DEF Books
<1> QED
  BY <1>1, <1>2 DEF Books

LEMMA OpenMove ==
    ASSUME NEW st, NEW k, NEW w \in World, OpenNonces(st, k, w), NEW w2 \in World, w2.log = w.log, NoLess(w, w2)
    PROVE  OpenNonces(st, k, w2)
<1> SUFFICES ASSUME NEW f, Opened(f, w) PROVE Opened(f, w2)
  BY DEF OpenNonces
<1>1. f.entry \in Entry /\ f.entry.nonce < Count(w, f.entry)
  BY DEF Opened
<1>2. PICK e \in Entry : e = f.entry
  BY <1>1
<1>3. e.nonce \in Nat /\ Count(w, e) \in Nat /\ Count(w2, e) \in Nat /\ Count(w2, e) >= Count(w, e)
  BY CountFacts, CountMoves
<1>4. f.entry.nonce < Count(w2, f.entry)
  BY <1>1, <1>2, <1>3
<1> QED
  BY <1>4 DEF Opened

LEMMA OpenLike ==
    ASSUME NEW st, NEW n \in Nat, NEW w, OpenNonces(st, n, w), NEW st2, Same(st, n - 1, st2),
           n # 0 => Like(st[n], st2[n])
    PROVE  OpenNonces(st2, n, w)
<1>0. \A f, h : Like(f, h) /\ Opened(f, w) => Opened(h, w)
  BY DEF Like, Opened
<1> SUFFICES ASSUME NEW j \in 1..n
             PROVE  Like(st[j], st2[j])
  BY <1>0 DEF OpenNonces, Like
<1>1. CASE j = n
  BY <1>1
<1>2. CASE j # n
  <2>1. j \in 1..(n - 1)
    BY <1>2
  <2> QED
    BY <2>1 DEF Same, Like
<1> QED
  BY <1>1, <1>2

SameItself(g) == \A n : Same(g, n, g)

LEMMA SelfSame ==
    ASSUME NEW g
    PROVE  SameItself(g)
  BY DEF SameItself, Same

\* The last call waits, or the one it made failed.
LEMMA TopWaits ==
    ASSUME NEW st, NEW g, NEW n \in Nat, n # 0, NEW w \in World, Accounts(st, g, n, w), ~st[n].failed,
           NEW st2, Same(st, n - 1, st2), Popped(st[n], st2[n]), NEW mode, mode = "lent" \/ st2[n].failed
    PROVE  Under(st2, g, n) /\ Recorded(st2, g, n, w, mode)
<1>1. Like(st[n], st2[n]) /\ Same(g, n, g)
  BY SelfSame DEF Popped, SameItself
<1>2. Under(st2, g, n)
  BY <1>1, UnderSame DEF Accounts
<1>3. Books(w) /\ OpenNonces(st, n, w) /\ Covered(st[n], g[n], w, "now")
  BY DEF Accounts, Recorded
<1>4. g[n] \in Plan
  BY UnderLess DEF Accounts, Planned
<1>5. Covered(st2[n], g[n], w, mode)
  BY <1>3, <1>4, Waits DEF Books
<1>6. OpenNonces(st2, n, w)
  BY <1>1, <1>3, OpenLike
<1> QED
  BY <1>2, <1>3, <1>5, <1>6 DEF Recorded

LEMMA TopMakes ==
    ASSUME NEW st, NEW g, NEW n \in Nat, n # 0, NEW w \in World, Accounts(st, g, n, w), ~st[n].failed,
           NEW st2, Same(st, n - 1, st2), Popped(st[n], st2[n]), ~st2[n].failed,
           NEW w2 \in World, Single(st[n], w, w2), SameCounts(w, w2),
           NEW mode, w2 = w \/ (mode = "now" /\ (st[n].kind = "exec" => st2[n].todo = <<>>))
    PROVE  Under(st2, g, n) /\ Recorded(st2, g, n, w2, mode)
<1>1. Like(st[n], st2[n]) /\ Same(g, n, g)
  BY SelfSame DEF Popped, SameItself
<1>2. Under(st2, g, n)
  BY <1>1, UnderSame DEF Accounts
<1>3. Books(w) /\ OpenNonces(st, n, w) /\ Covered(st[n], g[n], w, "now")
  BY DEF Accounts, Recorded
<1>4. g[n] \in Plan
  BY UnderLess DEF Accounts, Planned
<1>5. Covered(st2[n], g[n], w2, mode)
  <2>1. PICK f, h, p : f = st[n] /\ h = st2[n] /\ p = g[n]
    OBVIOUS
  <2>2. Covered(h, p, w2, mode)
    BY <1>3, <1>4, <2>1, Makes DEF Books
  <2> QED
    BY <2>1, <2>2
<1>6. w2.log = w.log /\ Grown(w, w2) /\ NoLess(w, w2)
  BY SameCountsMove DEF Single
<1>7. OpenNonces(st2, n, w2)
  BY <1>1, <1>3, <1>6, OpenLike, OpenMove
<1>8. Books(w2)
  BY <1>3, <1>6, BooksMove
<1> QED
  BY <1>2, <1>5, <1>7, <1>8 DEF Recorded

LEMMA CoveredFails ==
    ASSUME NEW f, NEW h, Like(f, h), h.todo = f.todo, h.failed, NEW p, NEW w, NEW mode, mode # "now",
           Covered(f, p, w, mode)
    PROVE  Covered(h, p, w, "now")
<1>1. AtMost(f, p, w) => AtMost(h, p, w)
  BY DEF AtMost, Coming, Like
<1>2. AtLeast(f, p, w) => AtLeast(h, p, w)
  BY DEF AtLeast, Certain, Like, Lenient
<1>3. Honoured(f, p, w) => Honoured(h, p, w)
  BY DEF Honoured, Pending, Like, Lenient
<1>4. Untouched(f, w) => Untouched(h, w)
  BY DEF Untouched, Like
<1>5. f.kind = h.kind /\ h.before = f.before /\ (Lenient(h) <=> Lenient(f))
  BY DEF Like, Lenient
<1> QED
  BY <1>1, <1>2, <1>3, <1>4, <1>5 DEF Covered

\* The last call reverts.
LEMMA Reverts ==
    ASSUME NEW st, NEW g, NEW n \in Nat, n # 0, NEW w, Accounts(st, g, n, w), NEW w2, w2 = st[n].before,
           NEW st2, Same(st, n - 2, st2),
           n > 1 => Like(st[n - 1], st2[n - 1]) /\ st2[n - 1].todo = st[n - 1].todo /\ st2[n - 1].failed
    PROVE  Accounts(st2, g, n - 1, w2)
<1>1. n - 1 \in Nat /\ n - 1 - 1 = n - 2 /\ (n - 1 # 0 => n > 1) /\ (n = 1 => n - 1 = 0)
  OBVIOUS
<1>2. Under(st, g, n - 1) /\ Recorded(st, g, n - 1, w2, Mode(st[n]))
  BY UnderLess DEF Accounts
<1>3. Same(g, n - 1, g) /\ Mode(st[n]) # "now"
  BY SelfSame DEF SameItself, Mode
<1>4. Under(st2, g, n - 1)
  BY <1>1, <1>2, <1>3, UnderSame
<1>5. OpenNonces(st2, n - 1, w2)
  BY <1>1, <1>2, OpenLike DEF Recorded
<1>6. CASE n = 1
  BY <1>1, <1>2, <1>4, <1>5, <1>6 DEF Accounts, Recorded
<1>7. CASE n # 1
  <2>1. Covered(st[n - 1], g[n - 1], w2, Mode(st[n]))
    BY <1>1, <1>2, <1>7 DEF Recorded
  <2>2. Covered(st2[n - 1], g[n - 1], w2, "now")
    BY <1>1, <1>3, <1>7, <2>1, CoveredFails
  <2> QED
    BY <1>1, <1>2, <1>4, <1>5, <1>7, <2>2 DEF Accounts, Recorded
<1> QED
  BY <1>6, <1>7

\* The call has nothing left to do, or its failure does not matter.
NoMore(c) == Lenient(c) \/ (~c.failed /\ c.todo = <<>>)

LEMMA NothingDue ==
    ASSUME NEW c, NoMore(c), NEW q, NEW w, Covered(c, q, w, "now")
    PROVE  /\ AtLeast(c, q, w) /\ Honoured(c, q, w)
           /\ \A s : Certain(c, q, s) = 0
           /\ \A item : ~Pending(c, q, item)
<1>1. CASE Lenient(c)
  BY <1>1 DEF Covered, Certain, Pending
<1>2. CASE ~c.failed /\ c.todo = <<>>
  BY <1>2, DueEmpty DEF Covered
<1> QED
  BY <1>1, <1>2 DEF NoMore

\* The caller has its own part of the plan back.
LEMMA GivesBack ==
    ASSUME NEW f \in Call, Interrupted(f), NEW c \in Call, NoMore(c), NEW p \in Plan, NEW q \in Plan,
           NEW w \in World, IsFiniteSet(w.log),
           Delegates(f, p, c, q), Covered(c, q, w, "now"), Covered(f, p, c.before, "lent")
    PROVE  Covered(f, p, w, "now")
<1>1. \A s \in Safe : /\ Excess(All, w, s) \in Int /\ Excess(Sure, w, s) \in Int
                      /\ Coming(c, q, s) \in Nat /\ Coming(f, p, s) \in Nat /\ Certain(f, p, s) \in Nat
                      /\ q.most[s] \in Int /\ p.most[s] \in Int /\ q.least[s] \in Int /\ p.least[s] \in Int
  BY ExcessInteger, DueNatural, RankFacts
<1>2. AtMost(f, p, w)
  <2> SUFFICES ASSUME NEW s \in Safe PROVE Excess(All, w, s) + Coming(f, p, s) <= p.most[s]
    BY DEF AtMost
  <2>1. Excess(All, w, s) + Coming(c, q, s) <= q.most[s] /\ q.most[s] + Coming(f, p, s) <= p.most[s]
    BY DEF Covered, AtMost, Delegates
  <2> QED
    BY <1>1, <2>1
<1>3. AtLeast(f, p, w)
  <2> SUFFICES ASSUME NEW s \in Safe PROVE Excess(Sure, w, s) + Certain(f, p, s) >= p.least[s]
    BY DEF AtLeast
  <2>1. Excess(Sure, w, s) + Certain(c, q, s) >= q.least[s] /\ Certain(c, q, s) = 0
    BY NothingDue DEF AtLeast
  <2>2. q.least[s] + Certain(f, p, s) >= p.least[s]
    BY DEF Delegates
  <2> QED
    BY <1>1, <2>1, <2>2
<1>4. Honoured(f, p, w)
  <2> SUFFICES ASSUME f.self \in Safe, NEW item \in p.pledge
               PROVE  Delivered(w, f.self, item) \/ Pending(f, p, item)
    BY DEF Honoured
  <2>1. c.self = f.self /\ (item \in q.pledge \/ Pending(f, p, item))
    BY DEF Delegates
  <2>2. item \in q.pledge => Delivered(w, c.self, item)
    BY <2>1, NothingDue DEF Honoured
  <2> QED
    BY <2>1, <2>2
<1>5. Grown(f.before, w)
  BY GrownOn DEF Covered
<1> QED
  BY <1>2, <1>3, <1>4, <1>5 DEF Covered, Interrupted

\* What a call that nobody delegated has done in all.
LEMMA AloneEnds ==
    ASSUME NEW c \in Call, NoMore(c), NEW q \in Plan, Alone(c, q), NEW w \in World, IsFiniteSet(w.log),
           IsFiniteSet(c.before.log), Covered(c, q, w, "now"), NEW s \in Safe,
           Total(All, c, s) \in Nat, Total(Sure, c, s) \in Nat
    PROVE  /\ Excess(All, w, s) <= Excess(All, c.before, s) + Total(All, c, s)
           /\ Excess(Sure, w, s) >= Excess(Sure, c.before, s) + Total(Sure, c, s)
<1>1. c.before \in World
  BY DEF Call
<1>2. /\ Excess(All, w, s) \in Int /\ Excess(Sure, w, s) \in Int
      /\ Excess(All, c.before, s) \in Int /\ Excess(Sure, c.before, s) \in Int
      /\ Coming(c, q, s) \in Nat /\ q.most[s] \in Int /\ q.least[s] \in Int
  BY <1>1, ExcessInteger, DueNatural, RankFacts
<1>3. Excess(All, w, s) + Coming(c, q, s) <= q.most[s]
  BY DEF Covered, AtMost
<1>4. Excess(Sure, w, s) + Certain(c, q, s) >= q.least[s] /\ Certain(c, q, s) = 0
  BY NothingDue DEF AtLeast
<1>5. /\ q.most[s] <= Excess(All, c.before, s) + Total(All, c, s)
      /\ q.least[s] >= Excess(Sure, c.before, s) + Total(Sure, c, s)
  BY DEF Alone
<1> QED
  BY <1>2, <1>3, <1>4, <1>5

LEMMA Resumes ==
    ASSUME NEW f \in Call, Interrupted(f), NEW p \in Plan, NEW c \in Call, IsFiniteSet(c.before.log),
           Covered(f, p, c.before, "waiting"), NEW w \in World, IsFiniteSet(w.log),
           Untouched(c, w), Grown(c.before, w)
    PROVE  Covered(f, p, w, "now")
<1>1. c.before \in World
  BY DEF Call
<1>2. ASSUME NEW s \in Safe
      PROVE  /\ Excess(All, w, s) \in Int /\ Excess(Sure, w, s) \in Int
             /\ Excess(All, c.before, s) \in Int /\ Excess(Sure, c.before, s) \in Int
             /\ Coming(f, p, s) \in Nat /\ Certain(f, p, s) \in Nat /\ p.most[s] \in Int /\ p.least[s] \in Int
             /\ Excess(All, w, s) <= Excess(All, c.before, s)
             /\ Excess(Sure, w, s) >= Excess(Sure, c.before, s)
  BY <1>1, ExcessInteger, DueNatural, RankFacts DEF Untouched
<1>3. AtMost(f, p, w)
  <2> SUFFICES ASSUME NEW s \in Safe PROVE Excess(All, w, s) + Coming(f, p, s) <= p.most[s]
    BY DEF AtMost
  <2>1. Excess(All, c.before, s) + Coming(f, p, s) <= p.most[s]
    BY DEF Covered, AtMost
  <2> QED
    BY <1>2, <2>1
<1>4. AtLeast(f, p, w)
  <2> SUFFICES ASSUME NEW s \in Safe PROVE Excess(Sure, w, s) + Certain(f, p, s) >= p.least[s]
    BY DEF AtLeast
  <2>1. Excess(Sure, c.before, s) + Certain(f, p, s) >= p.least[s]
    BY DEF Covered, AtLeast, Interrupted
  <2> QED
    BY <1>2, <2>1
<1>5. Honoured(f, p, w)
  BY DeliveredGrows DEF Honoured, Covered, Interrupted
<1>6. Grown(f.before, w)
  BY GrownOn DEF Covered
<1> QED
  BY <1>3, <1>4, <1>5, <1>6 DEF Covered, Interrupted

LEMMA LeavesSame ==
    ASSUME NEW st, NEW g, NEW n \in Nat, NEW w, Under(st, g, n), Recorded(st, g, n, w, "now"),
           NEW st2, Same(st, n, st2)
    PROVE  Accounts(st2, g, n, w)
<1>1. Same(g, n, g)
  BY SelfSame DEF SameItself
<1>2. Same(st, n - 1, st2) /\ (n # 0 => Like(st[n], st2[n]))
  BY DEF Same, Like
<1>3. Under(st2, g, n)
  BY <1>1, <1>2, UnderSame
<1>4. Recorded(st2, g, n, w, "now")
  BY <1>1, RecordedSame
<1> QED
  BY <1>3, <1>4 DEF Accounts

\* A call that nobody delegated ends, and its caller goes on.
LEMMA Leaves ==
    ASSUME NEW st \in Seq(Call), NEW g, NEW n \in Nat, n # 0, n = Len(st), NEW w, Accounts(st, g, n, w),
           ~Delegated(st[n]), NEW w2 \in World, Untouched(st[n], w2), Grown(st[n].before, w2),
           Books(w2), OpenNonces(st, n - 1, w2), n > 1 => Interrupted(st[n - 1]),
           NEW st2, Same(st, n - 1, st2)
    PROVE  Accounts(st2, g, n - 1, w2)
<1>1. n - 1 \in Nat /\ n \in 1..n
  OBVIOUS
<1>2. PICK c \in Call : c = st[n]
  BY <1>1
<1>3. Under(st, g, n - 1) /\ Recorded(st, g, n - 1, c.before, "waiting")
  BY <1>2, UnderLess DEF Accounts, Mode
<1>4. c.before \in World /\ IsFiniteSet(c.before.log) /\ IsFiniteSet(w2.log)
  BY <1>3 DEF Call, Recorded, Books
<1>5. CASE n = 1
  <2>1. n - 1 = 0
    BY <1>5
  <2>2. Balanced(c.before)
    BY <1>3, <2>1 DEF Recorded
  <2>3. ASSUME NEW s \in Safe
        PROVE  Excess(All, w2, s) <= 0 /\ Excess(Sure, w2, s) >= 0
    <3>1. /\ Excess(All, w2, s) \in Int /\ Excess(Sure, w2, s) \in Int
          /\ Excess(All, c.before, s) \in Int /\ Excess(Sure, c.before, s) \in Int
      BY <1>4, ExcessInteger
    <3>2. Excess(All, c.before, s) <= 0 /\ Excess(Sure, c.before, s) >= 0
      BY <2>2 DEF Balanced
    <3>3. Excess(All, w2, s) <= Excess(All, c.before, s) /\ Excess(Sure, w2, s) >= Excess(Sure, c.before, s)
      BY <1>2 DEF Untouched
    <3> QED
      BY <3>1, <3>2, <3>3
  <2>4. Recorded(st, g, n - 1, w2, "now")
    BY <2>1, <2>3 DEF Recorded, Balanced
  <2> QED
    BY <1>1, <1>3, <2>4, LeavesSame
<1>6. CASE n # 1
  <2>1. n - 1 # 0 /\ n - 1 \in 1..n /\ n > 1
    BY <1>6
  <2>2. PICK f \in Call : f = st[n - 1]
    BY <2>1
  <2>3. PICK p \in Plan : p = g[n - 1]
    BY <1>1, <1>3, <2>1, UnderLess DEF Planned
  <2>4. Covered(f, p, c.before, "waiting")
    BY <1>3, <2>1, <2>2, <2>3 DEF Recorded
  <2>5. Interrupted(f)
    BY <2>1, <2>2
  <2>6. Covered(f, p, w2, "now")
    BY <1>2, <1>4, <2>4, <2>5, Resumes
  <2>7. Recorded(st, g, n - 1, w2, "now")
    BY <2>1, <2>2, <2>3, <2>6 DEF Recorded
  <2> QED
    BY <1>1, <1>3, <2>7, LeavesSame
<1> QED
  BY <1>5, <1>6

\* A call other than a transaction returns.
LEMMA Returns ==
    ASSUME NEW st \in Seq(Call), NEW g, NEW n \in Nat, n # 0, n = Len(st), NEW w \in World, Accounts(st, g, n, w),
           st[n].kind \notin {"simulation", "exec"}, NoMore(st[n]), n > 1 => Interrupted(st[n - 1]),
           NEW st2, Same(st, n - 1, st2)
    PROVE  Accounts(st2, g, n - 1, w)
<1>1. n - 1 \in Nat /\ n \in 1..n /\ \A j \in 1..(n - 1) : j \in 1..n
  OBVIOUS
<1>2. PICK c \in Call : c = st[n]
  BY <1>1
<1>3. Under(st, g, n - 1) /\ Recorded(st, g, n - 1, c.before, Mode(c)) /\ Planned(st, g, n)
  BY <1>2, UnderLess DEF Accounts
<1>4. PICK q \in Plan : q = g[n]
  BY <1>3 DEF Planned
<1>5. Books(w) /\ OpenNonces(st, n - 1, w) /\ Covered(c, q, w, "now")
  BY <1>1, <1>2, <1>4 DEF Accounts, Recorded, OpenNonces
<1>6. IsFiniteSet(w.log) /\ IsFiniteSet(c.before.log)
  BY <1>3, <1>5 DEF Recorded, Books
<1>7. CASE Delegated(c)
  <2>1. n > 1 /\ Delegates(st[n - 1], g[n - 1], c, q)
    BY <1>2, <1>3, <1>4, <1>7 DEF Planned
  <2>2. n - 1 # 0 /\ n - 1 \in 1..n
    BY <2>1
  <2>3. PICK f \in Call : f = st[n - 1]
    BY <2>2
  <2>4. PICK p \in Plan : p = g[n - 1]
    BY <1>1, <1>3, <2>2, UnderLess DEF Planned
  <2>5. Covered(f, p, c.before, "lent")
    BY <1>3, <1>7, <2>2, <2>3, <2>4 DEF Recorded, Mode
  <2>6. Covered(f, p, w, "now")
    BY <1>2, <1>5, <1>6, <2>1, <2>3, <2>4, <2>5, GivesBack
  <2>7. Recorded(st, g, n - 1, w, "now")
    BY <1>5, <2>2, <2>3, <2>4, <2>6 DEF Recorded
  <2> QED
    BY <1>1, <1>3, <2>7, LeavesSame
<1>8. CASE ~Delegated(c)
  <2>1. Alone(c, q)
    BY <1>2, <1>3, <1>4, <1>8 DEF Planned
  <2>2. \A s \in Safe : /\ Total(All, c, s) = 0 /\ Total(Sure, c, s) = 0
                        /\ Excess(All, c.before, s) \in Int /\ Excess(Sure, c.before, s) \in Int
    BY <1>2, <1>6, ExcessInteger DEF Total, Call
  <2>3. Untouched(c, w)
    <3> SUFFICES ASSUME NEW s \in Safe
                 PROVE  /\ Excess(All, w, s) <= Excess(All, c.before, s)
                        /\ Excess(Sure, w, s) >= Excess(Sure, c.before, s)
      BY DEF Untouched
    <3>1. Total(All, c, s) \in Nat /\ Total(Sure, c, s) \in Nat
      BY <2>2
    <3>2. /\ Excess(All, w, s) <= Excess(All, c.before, s) + Total(All, c, s)
          /\ Excess(Sure, w, s) >= Excess(Sure, c.before, s) + Total(Sure, c, s)
      BY <1>2, <1>5, <1>6, <2>1, <3>1, AloneEnds
    <3> QED
      BY <2>2, <3>2
  <2>4. Grown(c.before, w)
    BY <1>5 DEF Covered
  <2> QED
    BY <1>2, <1>5, <1>8, <2>3, <2>4, Leaves
<1> QED
  BY <1>7, <1>8

Logged(c, e, w, w2) ==
    /\ e \in Entry /\ e.safe = c.self /\ e.tx = c.entry.tx /\ e.nonce = c.entry.nonce /\ (e.ok <=> ~c.failed)
    /\ SameBook(e, c.entry)
    /\ w2.log = w.log \cup {e} /\ SameCounts(w, w2) /\ w2.touched = w.touched
    /\ w2.signed = w.signed /\ w2.migrated = w.migrated

\* A transaction ends, as a success or not.
LEMMA Ends ==
    ASSUME NEW st \in Seq(Call), NEW g, NEW n \in Nat, n # 0, n = Len(st), NEW w \in World, Accounts(st, g, n, w),
           st[n].kind = "exec", st[n].failed \/ st[n].todo = <<>>,
           NEW e, NEW w2 \in World, Logged(st[n], e, w, w2),
           n > 1 => Interrupted(st[n - 1]), NEW st2, Same(st, n - 1, st2)
    PROVE  Accounts(st2, g, n - 1, w2)
<1>1. n - 1 \in Nat /\ n \in 1..n /\ \A j \in 1..(n - 1) : j \in 1..n
  OBVIOUS
<1>2. PICK c \in Call : c = st[n]
  BY <1>1
<1>3. Recorded(st, g, n - 1, c.before, Mode(c)) /\ Planned(st, g, n)
  BY <1>2, UnderLess DEF Accounts
<1>4. PICK q \in Plan : q = g[n]
  BY <1>3 DEF Planned
<1>5. Books(w) /\ OpenNonces(st, n, w) /\ Covered(c, q, w, "now")
  BY <1>2, <1>4 DEF Accounts, Recorded
<1>6. IsFiniteSet(w.log) /\ IsFiniteSet(c.before.log) /\ OpenNonces(st, n - 1, c.before)
  BY <1>3, <1>5 DEF Recorded, Books
<1>7. ~Delegated(c) /\ c.kind = "exec" /\ Alone(c, q)
  BY <1>2, <1>3, <1>4 DEF Delegated, Planned
<1>8. Logged(c, e, w, w2)
  BY <1>2
<1>9. c.self \in Safe /\ e.nonce < Count(w, e) /\ e \notin w.log
  <2>1. Opened(c, w)
    BY <1>1, <1>2, <1>5, <1>7 DEF OpenNonces
  <2>2. c.entry \in Entry /\ SameBook(e, c.entry) /\ e.nonce = c.entry.nonce
    BY <1>8, <2>1 DEF Opened, Logged
  <2>3. Count(w, e) = Count(w, c.entry)
    BY <2>2, CountFacts
  <2> QED
    BY <2>1, <2>2, <2>3 DEF Opened
<1>10. \A s \in Safe : /\ Excess(All, c.before, s) \in Int /\ Excess(Sure, c.before, s) \in Int
                       /\ Excess(All, w, s) \in Int /\ Excess(Sure, w, s) \in Int
                       /\ Touches(All, e.tx) \in Nat /\ Touches(Sure, e.tx) \in Nat
                       /\ Total(All, c, s) = IF e.safe = s THEN Touches(All, e.tx) ELSE 0
                       /\ Total(Sure, c, s) = IF e.safe = s THEN Touches(Sure, e.tx) ELSE 0
  <2>1. c.before \in World /\ e.tx \in Tx
    BY <1>8 DEF Call, Logged, Entry
  <2>2. Touches(All, e.tx) \in Nat /\ Touches(Sure, e.tx) \in Nat
    BY <2>1, AllInside, TouchesOfTx
  <2>3. \A s : /\ Total(All, c, s) = IF e.safe = s THEN Touches(All, e.tx) ELSE 0
               /\ Total(Sure, c, s) = IF e.safe = s THEN Touches(Sure, e.tx) ELSE 0
    BY <1>7, <1>8 DEF Total, Logged
  <2> QED
    BY <1>6, <2>1, <2>2, <2>3, ExcessInteger
<1>11. Untouched(c, w2)
  <2> SUFFICES ASSUME NEW s \in Safe
               PROVE  /\ Excess(All, w2, s) <= Excess(All, c.before, s)
                      /\ Excess(Sure, w2, s) >= Excess(Sure, c.before, s)
    BY DEF Untouched
  <2>1. /\ Excess(All, w2, s) = Excess(All, w, s) - (IF e.ok /\ e.safe = s THEN Touches(All, e.tx) ELSE 0)
        /\ Excess(Sure, w2, s) = Excess(Sure, w, s) - (IF e.ok /\ e.safe = s THEN Touches(Sure, e.tx) ELSE 0)
    BY <1>6, <1>8, <1>9, AllInside, ExcessLogged DEF Logged
  <2>2. CASE c.failed
    <3>1. Excess(All, w, s) <= Excess(All, c.before, s) /\ Excess(Sure, w, s) >= Excess(Sure, c.before, s)
      BY <1>5, <1>7, <2>2 DEF Covered, Untouched
    <3>2. ~e.ok
      BY <1>8, <2>2 DEF Logged
    <3> QED
      BY <1>10, <2>1, <3>1, <3>2
  <2>3. CASE ~c.failed
    <3>1. NoMore(c)
      BY <1>2, <2>3 DEF NoMore
    <3>2. Total(All, c, s) \in Nat /\ Total(Sure, c, s) \in Nat
      BY <1>10
    <3>3. /\ Excess(All, w, s) <= Excess(All, c.before, s) + Total(All, c, s)
          /\ Excess(Sure, w, s) >= Excess(Sure, c.before, s) + Total(Sure, c, s)
      BY <1>5, <1>6, <1>7, <3>1, <3>2, AloneEnds
    <3>4. e.ok
      BY <1>8, <2>3 DEF Logged
    <3> QED
      BY <1>10, <2>1, <3>3, <3>4
  <2> QED
    BY <2>2, <2>3
<1>12. Grown(w, w2) /\ Grown(c.before, w2)
  <2>1. Grown(w, w2) /\ Grown(c.before, w)
    BY <1>5, <1>8 DEF Grown, Logged, Covered
  <2> QED
    BY <2>1, GrownOn
<1>13. Books(w2)
  <2>1. IsFiniteSet(w2.log)
    BY <1>6, <1>8, FS_AddElement DEF Logged
  <2>2. \A d \in w2.log : d.nonce < Count(w2, d)
    <3>1. \A d : Count(w2, d) = Count(w, d)
      BY <1>8, SameCountsMove DEF Logged
    <3> QED
      BY <1>5, <1>8, <1>9, <3>1 DEF Books, Logged
  <2>3. ASSUME e.ok, NEW item \in Parts(Sure, e.tx)
        PROVE  Delivered(w2, e.safe, item)
    <3>1. NoMore(c)
      BY <1>2, <1>8, <2>3 DEF NoMore, Logged
    <3>2. item \in q.pledge
      BY <1>7, <1>8, <2>3 DEF Alone, Logged
    <3>3. Delivered(w, c.self, item)
      BY <1>5, <1>9, <3>1, <3>2, NothingDue DEF Honoured
    <3> QED
      BY <1>8, <1>12, <3>3, DeliveredGrows DEF Logged
  <2>4. \A d \in w.log : d.ok => \A item \in Parts(Sure, d.tx) : Delivered(w2, d.safe, item)
    BY <1>5, <1>12, DeliveredGrows DEF Books
  <2>5. w2.log = w.log \cup {e}
    BY <1>8 DEF Logged
  <2> QED
    BY <2>1, <2>2, <2>3, <2>4, <2>5 DEF Books
<1>14. OpenNonces(st, n - 1, w2)
  <2> SUFFICES ASSUME NEW j \in 1..(n - 1), st[j].kind = "exec"
               PROVE  Opened(st[j], w2)
    BY DEF OpenNonces
  <2>1. PICK f : f = st[j]
    OBVIOUS
  <2>2. Opened(f, w) /\ Opened(f, c.before)
    BY <1>1, <1>5, <1>6, <2>1 DEF OpenNonces
  <2>3. PICK d \in Entry : d = f.entry
    BY <2>2 DEF Opened
  <2>4. e.nonce = Count(c.before, c.entry) /\ SameBook(e, c.entry)
    BY <1>7, <1>8 DEF Alone, Logged
  <2>5. SameBook(e, d) => e.nonce # d.nonce
    <3> SUFFICES ASSUME SameBook(e, d) PROVE e.nonce # d.nonce
      OBVIOUS
    <3>1. SameBook(c.entry, d)
      BY <2>4 DEF SameBook
    <3>2. c.before \in World
      BY DEF Call
    <3>3. Count(c.before, c.entry) = Count(c.before, d) /\ d.nonce \in Nat /\ Count(c.before, d) \in Nat
      BY <3>1, <3>2, CountFacts
    <3>4. d.nonce < Count(c.before, d)
      BY <2>2, <2>3 DEF Opened
    <3> QED
      BY <2>4, <3>3, <3>4
  <2>6. Count(w2, d) = Count(w, d)
    BY <1>8, SameCountsMove DEF Logged
  <2> QED
    BY <1>8, <2>1, <2>2, <2>3, <2>5, <2>6 DEF Logged, Opened
<1> QED
  BY <1>2, <1>7, <1>11, <1>12, <1>13, <1>14, Leaves

\* One call more with the plan q.
LEMMA PlanMore ==
    ASSUME NEW st, NEW g, NEW n \in Nat, Under(st, g, n), Recorded(st, g, n, st[n + 1].before, Mode(st[n + 1])),
           NEW q \in Plan, q.rank >= MaxDepth - n,
           Delegated(st[n + 1]) => n # 0 /\ Delegates(st[n], g[n], st[n + 1], q),
           ~Delegated(st[n + 1]) /\ st[n + 1].kind # "simulation" => Alone(st[n + 1], q),
           NEW w, Books(w), OpenNonces(st, n + 1, w), Covered(st[n + 1], q, w, "now")
    PROVE  \E g2 : Accounts(st, g2, n + 1, w)
<1>1. PICK g2 : g2 = [j \in 1..(n + 1) |-> IF j = n + 1 THEN q ELSE g[j]]
  OBVIOUS
<1>2. Same(g, n, g2) /\ g2[n + 1] = q /\ (n # 0 => g2[n] = g[n])
  BY <1>1 DEF Same
<1>3. Same(st, n, st) /\ Same(st, n - 1, st) /\ Like(st[n], st[n])
  BY DEF Same, Like
<1>4. Under(st, g2, n) /\ Recorded(st, g2, n, st[n + 1].before, Mode(st[n + 1]))
  BY <1>2, <1>3, UnderSame, RecordedSame
<1>5. Planned(st, g2, n + 1)
  <2>1. MaxDepth - (n + 1) + 1 = MaxDepth - n /\ (n + 1) - 1 = n /\ (n # 0 => n + 1 > 1)
    BY NetworkAssumption
  <2> QED
    BY <1>2, <2>1 DEF Planned
<1>6. Under(st, g2, n + 1)
  BY <1>4, <1>5, UnderMore
<1>7. Recorded(st, g2, n + 1, w, "now")
  <2>1. n + 1 # 0
    OBVIOUS
  <2> QED
    BY <1>2, <2>1 DEF Recorded
<1> QED
  BY <1>6, <1>7 DEF Accounts

\* The last call has a library make calls in its name.
LEMMA EntersLent ==
    ASSUME NEW st, NEW g, NEW n \in Nat, n # 0, n + 1 <= MaxDepth, NEW w \in World, Accounts(st, g, n, w),
           ~st[n].failed, NEW st2, Same(st, n - 1, st2), Popped(st[n], st2[n]),
           Lends(st[n], st2[n + 1]), st2[n + 1].before = w
    PROVE  \E g2 : Accounts(st2, g2, n + 1, w)
<1>1. Under(st2, g, n) /\ Recorded(st2, g, n, w, "lent")
  BY TopWaits
<1>2. PICK f, h, c : f = st[n] /\ h = st2[n] /\ c = st2[n + 1]
  OBVIOUS
<1>3. Books(w) /\ Covered(f, g[n], w, "now") /\ OpenNonces(st2, n, w)
  BY <1>1, <1>2 DEF Accounts, Recorded
<1>4. Planned(st, g, n)
  BY UnderLess DEF Accounts
<1>5. PICK p \in Plan : p = g[n] /\ p.rank >= MaxDepth - n + 1
  BY <1>4 DEF Planned
<1>6. PICK r \in Int : r = p.rank
  BY RankFacts
<1>7. r # 0 /\ r - 1 >= MaxDepth - n
  BY <1>5, <1>6, NetworkAssumption
<1>8. PICK q \in Plan : q.rank = p.rank - 1 /\ Delegates(h, p, c, q) /\ Covered(c, q, w, "now")
  BY <1>2, <1>3, <1>5, <1>6, <1>7, Entrusts DEF Books
<1>9. Delegated(c) /\ Mode(c) = "lent" /\ c.kind # "exec"
  BY <1>2 DEF Lends, Delegated, Mode
<1>10. \A j \in 1..(n + 1) : j \in 1..n \/ j = n + 1
  OBVIOUS
<1>11. OpenNonces(st2, n + 1, w)
  BY <1>2, <1>3, <1>9, <1>10 DEF OpenNonces
<1>12. q.rank >= MaxDepth - n
  BY <1>6, <1>7, <1>8
<1> QED
  BY <1>1, <1>2, <1>3, <1>5, <1>8, <1>9, <1>11, <1>12, PlanMore

\* A call that nobody delegates starts.
LEMMA EntersAlone ==
    ASSUME NEW st, NEW g, NEW n \in Nat, NEW w \in World, Accounts(st, g, n, w), NEW st2, Same(st, n - 1, st2),
           n # 0 => ~st[n].failed /\ ~st2[n].failed /\ Popped(st[n], st2[n]) /\ Single(st[n], w, w),
           Starts(st2[n + 1], w), NEW w2 \in World, Equal(w, w2), NoLess(w, w2),
           st2[n + 1].kind = "exec" => st2[n + 1].entry.nonce < Count(w2, st2[n + 1].entry)
    PROVE  \E g2 : Accounts(st2, g2, n + 1, w2)
<1>1. Under(st2, g, n) /\ Recorded(st2, g, n, w, "waiting")
  <2>1. CASE n = 0
    BY <2>1 DEF Accounts, Recorded, Under, OpenNonces
  <2>2. CASE n # 0
    BY <2>2, TopMakes DEF SameCounts
  <2> QED
    BY <2>1, <2>2
<1>2. PICK c : c = st2[n + 1]
  OBVIOUS
<1>3. Books(w) /\ OpenNonces(st2, n, w)
  BY <1>1 DEF Recorded
<1>4. PICK q \in Plan : /\ q.rank = MaxDepth /\ (c.kind # "simulation" => Alone(c, q))
                        /\ Covered(c, q, w2, "now")
  BY <1>2, <1>3, StartsAlone DEF Books
<1>5. ~Delegated(c) /\ Mode(c) = "waiting" /\ c.before = w
  BY <1>2 DEF Starts, Mode
<1>6. Grown(w, w2) /\ w2.log = w.log
  BY DEF Equal, Grown
<1>7. Books(w2) /\ OpenNonces(st2, n, w2)
  BY <1>3, <1>6, BooksMove, OpenMove
<1>8. \A j \in 1..(n + 1) : j \in 1..n \/ j = n + 1
  OBVIOUS
<1>9. ASSUME c.kind = "exec"
      PROVE  Opened(c, w2)
  <2>1. PICK d \in Entry : d = c.entry
    BY <1>2, <1>9 DEF Starts
  <2>2. c.self \in Safe /\ d.safe = c.self /\ d.nonce = Count(w, d)
    BY <1>2, <1>9, <2>1 DEF Starts
  <2>3. ASSUME NEW e \in w.log, SameBook(e, d)
        PROVE  e.nonce # d.nonce
    <3>1. e \in Entry /\ e.nonce < Count(w, e)
      BY <1>3, WorldType DEF Books
    <3>2. e.nonce \in Nat /\ Count(w, e) = Count(w, d) /\ Count(w, d) \in Nat
      BY <2>3, <3>1, CountFacts
    <3> QED
      BY <2>2, <3>1, <3>2
  <2> QED
    BY <1>2, <1>6, <1>9, <2>1, <2>2, <2>3 DEF Opened
<1>10. OpenNonces(st2, n + 1, w2)
  BY <1>2, <1>7, <1>8, <1>9 DEF OpenNonces
<1>11. q.rank >= MaxDepth - n
  BY <1>4, NetworkAssumption
<1> QED
  BY <1>1, <1>2, <1>4, <1>5, <1>7, <1>10, <1>11, PlanMore

-----------------------------------------------------------------------------
(* The steps *)

Accounted == \E g : Accounts(stack, g, Len(stack), world)

LEMMA ContinuedPops ==
    ASSUME IInv, Running, NEW n, n = Len(stack)
    PROVE  /\ n \in Nat /\ n # 0 /\ stack[n] = Top /\ Same(stack, n - 1, Continued) /\ Len(Continued) = n
           /\ Continued \in Seq(Call) /\ Popped(stack[n], Continued[n])
           /\ ~stack[n].failed /\ ~Continued[n].failed
           /\ stack[n].kind = "exec" => Continued[n].todo = <<>>
           /\ sender = stack[n].self
<1>1. n \in Nat /\ n # 0 /\ stack # <<>> /\ stack[n] \in Call /\ n \in 1..n /\ Top = stack[n]
  BY StackFacts DEF Running, Top
<1>2. /\ Continued \in Seq(Call) /\ Len(Continued) = n /\ Same(stack, n - 1, Continued)
      /\ Continued[n] = [stack[n] EXCEPT !.todo = Tail(Top.todo)]
      /\ Interrupted(Continued[n])
  BY <1>1, ContinuedFacts
<1>3. PICK h \in Call : h = Continued[n]
  BY <1>1, <1>2
<1>4. PICK f \in Call : f = stack[n]
  BY <1>1
<1>5. f.todo # <<>> /\ ~f.failed /\ h = [f EXCEPT !.todo = Tail(f.todo)]
  BY <1>1, <1>2, <1>3, <1>4 DEF Running
<1>6. h.todo = Tail(f.todo) /\ Like(f, h)
  BY <1>5 DEF Call, Like
<1>7. h.kind = f.kind
  BY <1>6 DEF Like
<1> QED
  BY <1>1, <1>2, <1>3, <1>4, <1>5, <1>6, <1>7 DEF Popped, Interrupted, sender

LEMMA FailAccounts ==
    ASSUME IInv, Accounted, stack = <<>> \/ Running, Fail
    PROVE  Accounted'
<1>1. PICK g : Accounts(stack, g, Len(stack), world)
  BY DEF Accounted
<1>2. CASE stack = <<>>
  BY <1>1, <1>2 DEF Fail, Accounted
<1>3. CASE Running
  <2>1. PICK n : n = Len(stack)
    OBVIOUS
  <2>2. /\ n \in Nat /\ n # 0 /\ Same(stack, n - 1, Continued) /\ Len(Continued) = n
        /\ Continued \in Seq(Call) /\ Popped(stack[n], Continued[n]) /\ ~stack[n].failed
    BY <1>3, <2>1, ContinuedPops
  <2>3. PICK f : f = [Continued[n] EXCEPT !.failed = TRUE]
    OBVIOUS
  <2>4. Popped(stack[n], f) /\ f.failed
    <3>1. Continued[n] \in Call
      BY <2>2
    <3>2. f \in Call /\ f.todo = Continued[n].todo /\ Like(Continued[n], f) /\ f.failed
      BY <2>3, <3>1 DEF Call, Like
    <3> QED
      BY <2>2, <3>2 DEF Popped, Like
  <2>5. stack' = [Continued EXCEPT ![n] = f] /\ world' = world
    BY <1>3, <2>1, <2>3 DEF Fail, Running
  <2>6. Len(stack') = n /\ stack'[n] = f /\ Same(stack, n - 1, stack')
    BY <2>2, <2>5 DEF Same
  <2>7. PICK st : st = stack'
    OBVIOUS
  <2>8. Under(st, g, n) /\ Recorded(st, g, n, world, "now")
    BY <1>1, <2>1, <2>2, <2>4, <2>6, <2>7, StackFacts, TopWaits
  <2> QED
    BY <2>5, <2>6, <2>7, <2>8 DEF Accounts, Accounted
<1> QED
  BY <1>2, <1>3

\* The call item is made and over.
LEMMA DoAccounts ==
    ASSUME IInv, Accounted, NEW item, Performed(item), stack' = Continued, world' \in World,
           world'.log = world.log, SameCounts(world, world'), Grown(world, world'), Binding(item) = <<>>,
           \A s \in Safe : world'.touched[s] = world.touched[s] + (IF s = sender THEN Own(item) ELSE 0),
           sender \in Safe => Delivered(world', sender, item)
    PROVE  Accounted'
<1>1. PICK g : Accounts(stack, g, Len(stack), world)
  BY DEF Accounted
<1>2. PICK w, w2 : w = world /\ w2 = world'
  OBVIOUS
<1>3. /\ w \in World /\ w2 \in World /\ w2.log = w.log /\ SameCounts(w, w2) /\ Grown(w, w2)
      /\ \A s \in Safe : w2.touched[s] = w.touched[s] + (IF s = sender THEN Own(item) ELSE 0)
      /\ sender \in Safe => Delivered(w2, sender, item)
  BY <1>2, StackFacts
<1>4. CASE stack = <<>>
  <2>1. stack' = <<>> /\ Len(stack) = 0 /\ sender \notin Safe
    BY <1>4, NotSafe DEF Continued, sender
  <2>2. Books(w) /\ Balanced(w)
    BY <1>1, <1>2, <2>1 DEF Accounts, Recorded
  <2>3. NoLess(w, w2)
    BY <1>3, SameCountsMove
  <2>4. Books(w2)
    BY <1>3, <2>2, <2>3, BooksMove
  <2>5. Balanced(w2)
    <3> SUFFICES ASSUME NEW s \in Safe PROVE Excess(All, w2, s) <= 0 /\ Excess(Sure, w2, s) >= 0
      BY DEF Balanced
    <3>1. w.touched[s] \in Nat /\ Owed(All, w, s) \in Nat /\ Owed(Sure, w, s) \in Nat /\ IsFiniteSet(w.log)
      BY <1>3, <2>2, AllInside, OwedNatural DEF World, Books
    <3>2. w2.touched[s] = w.touched[s] + 0 /\ 0 \in Nat
      BY <1>3, <2>1
    <3>3. Excess(All, w2, s) = Excess(All, w, s) + 0 /\ Excess(Sure, w2, s) = Excess(Sure, w, s) + 0
      BY <1>3, <3>1, <3>2, ExcessMoves
    <3>4. Excess(All, w, s) \in Int /\ Excess(Sure, w, s) \in Int
      BY <1>3, <3>1, ExcessInteger
    <3> QED
      BY <2>2, <3>3, <3>4 DEF Balanced
  <2>6. Accounts(<<>>, g, 0, w2)
    BY <2>4, <2>5 DEF Accounts, Under, Recorded, OpenNonces
  <2> QED
    BY <1>2, <2>1, <2>6 DEF Accounted
<1>5. CASE Running
  <2>1. PICK n : n = Len(stack)
    OBVIOUS
  <2>2. /\ n \in Nat /\ n # 0 /\ stack[n] = Top /\ Same(stack, n - 1, Continued) /\ Len(Continued) = n
        /\ Popped(stack[n], Continued[n]) /\ ~stack[n].failed /\ ~Continued[n].failed
        /\ stack[n].kind = "exec" => Continued[n].todo = <<>>
        /\ sender = stack[n].self
    BY <1>5, <2>1, ContinuedPops
  <2>3. item = Head(stack[n].todo)
    BY <1>5, <2>2 DEF Performed, Running
  <2>4. Single(stack[n], w, w2)
    BY <1>3, <2>2, <2>3 DEF Single
  <2>5. Accounts(stack, g, n, w)
    BY <1>1, <1>2, <2>1
  <2>6. Under(Continued, g, n) /\ Recorded(Continued, g, n, w2, "now")
    BY <1>3, <2>2, <2>4, <2>5, TopMakes
  <2> QED
    BY <1>2, <2>2, <2>6 DEF Accounts, Accounted
<1> QED
  BY <1>4, <1>5 DEF Performed

\* Calls under the last one wait for it.
LEMMA UnderWaits ==
    ASSUME IInv, stack # <<>>, NEW n, n = Len(stack)
    PROVE  /\ n \in Nat /\ n # 0 /\ stack \in Seq(Call) /\ stack[n] = Top /\ Top \in Call /\ world \in World
           /\ FrameInv(stack, n, n)
           /\ n > 1 => Interrupted(stack[n - 1])
           /\ Len(Rest) = n - 1 /\ Same(stack, n - 1, Rest) /\ Rest \in Seq(Call)
<1>1. n \in Nat /\ n # 0 /\ n \in 1..n /\ stack \in Seq(Call) /\ stack[n] = Top
  BY StackFacts DEF Top
<1>2. n > 1 => n - 1 \in 1..n /\ n - 1 < n
  BY <1>1
<1>3. n > 1 => Interrupted(stack[n - 1])
  BY <1>2, StackFacts DEF FrameInv
<1>4. Len(Rest) = n - 1 /\ Same(stack, n - 1, Rest) /\ Rest \in Seq(Call)
  BY <1>1, RestFacts DEF Rest, Same
<1> QED
  BY <1>1, <1>3, <1>4, StackFacts

LEMMA RevertAccounts ==
    ASSUME IInv, Accounted, stack # <<>>, RevertTop
    PROVE  Accounted'
<1>1. PICK n : n = Len(stack)
  OBVIOUS
<1>2. /\ n \in Nat /\ n # 0 /\ stack[n] = Top /\ Len(Rest) = n - 1 /\ Same(stack, n - 1, Rest)
      /\ Rest \in Seq(Call)
  BY <1>1, UnderWaits
<1>3. PICK g : Accounts(stack, g, n, world)
  BY <1>1 DEF Accounted
<1>4. PICK w2 : w2 = stack[n].before
  OBVIOUS
<1>5. PICK st : st = stack'
  OBVIOUS
<1>6. /\ Len(st) = n - 1 /\ Same(stack, n - 2, st)
      /\ n > 1 => Like(stack[n - 1], st[n - 1]) /\ st[n - 1].todo = stack[n - 1].todo /\ st[n - 1].failed
  <2>1. CASE n = 1
    BY <1>2, <1>5, <2>1 DEF RevertTop, Same
  <2>2. CASE n > 1
    <3>1. PICK f : f = [Rest[n - 1] EXCEPT !.failed = TRUE]
      OBVIOUS
    <3>2. Rest[n - 1] \in Call /\ Rest[n - 1] = stack[n - 1]
      BY <1>2, <2>2 DEF Same
    <3>3. Like(stack[n - 1], f) /\ f.todo = stack[n - 1].todo /\ f.failed
      BY <3>1, <3>2 DEF Call, Like
    <3>4. st = [Rest EXCEPT ![n - 1] = f]
      <4>1. Rest # <<>>
        BY <1>2, <2>2
      <4>2. st = [Rest EXCEPT ![Len(Rest)].failed = TRUE]
        BY <1>5, <4>1 DEF RevertTop
      <4> QED
        BY <1>2, <3>1, <4>2
    <3>5. Len(st) = n - 1 /\ st[n - 1] = f /\ Same(stack, n - 2, st)
      BY <1>2, <2>2, <3>4 DEF Same
    <3> QED
      BY <3>3, <3>5
  <2> QED
    BY <1>2, <2>1, <2>2
<1>7. Accounts(st, g, n - 1, w2)
  BY <1>2, <1>3, <1>4, <1>6, Reverts
<1>8. world' = w2
  BY <1>2, <1>4 DEF RevertTop
<1> QED
  BY <1>5, <1>6, <1>7, <1>8 DEF Accounted

LEMMA ReturnAccounts ==
    ASSUME IInv, Accounted, stack # <<>>, Top.kind \in {"batch", "callOnly", "accessor", "handler"}, NoMore(Top),
           Return
    PROVE  Accounted'
<1>1. PICK n : n = Len(stack)
  OBVIOUS
<1>2. /\ n \in Nat /\ n # 0 /\ stack \in Seq(Call) /\ stack[n] = Top /\ world \in World
      /\ n > 1 => Interrupted(stack[n - 1])
      /\ Len(Rest) = n - 1 /\ Same(stack, n - 1, Rest)
  BY <1>1, UnderWaits
<1>3. PICK g : Accounts(stack, g, n, world)
  BY <1>1 DEF Accounted
<1>4. Accounts(Rest, g, n - 1, world)
  BY <1>1, <1>2, <1>3, Returns
<1> QED
  BY <1>2, <1>4 DEF Return, Accounted

LEMMA ExecEndsAccounts ==
    ASSUME IInv, Accounted, ExecEnds
    PROVE  Accounted'
<1>1. PICK n : n = Len(stack)
  OBVIOUS
<1>2. stack # <<>> /\ Top.kind = "exec" /\ (Top.failed \/ Top.todo = <<>>)
  BY DEF ExecEnds, Ending
<1>3. /\ n \in Nat /\ n # 0 /\ stack \in Seq(Call) /\ stack[n] = Top /\ Top \in Call /\ world \in World
      /\ FrameInv(stack, n, n)
      /\ n > 1 => Interrupted(stack[n - 1])
      /\ Len(Rest) = n - 1 /\ Same(stack, n - 1, Rest)
  BY <1>1, <1>2, UnderWaits
<1>4. CASE RevertTop
  BY <1>2, <1>4, RevertAccounts
<1>5. CASE ~(Top.failed /\ ~Top.entry.tx.tolerant)
  <2>1. PICK e : e = [Top.entry EXCEPT !.ok = ~Top.failed]
    OBVIOUS
  <2>2. Top.entry \in Entry /\ Top.entry.safe = Top.self /\ Top.failed \in BOOLEAN
    BY <1>2, <1>3 DEF FrameInv, Executing, Call
  <2>3. e \in Entry /\ e.safe = Top.self /\ e.tx = Top.entry.tx /\ e.nonce = Top.entry.nonce
    BY <2>1, <2>2 DEF Entry
  <2>4. (e.ok <=> ~Top.failed) /\ SameBook(e, Top.entry)
    <3>1. e.ok <=> ~Top.failed
      BY <2>1, <2>2, Zenon DEF Entry
    <3>2. e.module <=> Top.entry.module
      BY <2>1, <2>2, Zenon DEF Entry
    <3> QED
      BY <2>2, <2>3, <3>1, <3>2 DEF SameBook
  <2>5. PICK l : l = Left(Top.guard, world.guards, Top.entry.tx.item, Top.entry.nonce)
    OBVIOUS
  <2>6. l \in [active : BOOLEAN, txNonces : SUBSET (Item \X Nat)]
    BY <1>3, <2>5 DEF World, Left, Lower, Erase
  <2>7. world' = [world EXCEPT !.guards = l, !.log = world.log \cup {e}] /\ stack' = Rest
    BY <1>5, <2>1, <2>5 DEF ExecEnds
  <2>8. PICK w2 : w2 = world'
    OBVIOUS
  <2>9. /\ w2 \in World /\ w2.log = world.log \cup {e} /\ SameCounts(world, w2)
        /\ w2.touched = world.touched /\ w2.signed = world.signed /\ w2.migrated = world.migrated
    BY <1>3, <2>3, <2>6, <2>7, <2>8, WorldType DEF SameCounts
  <2>10. Logged(stack[n], e, world, w2)
    BY <1>3, <2>3, <2>4, <2>9 DEF Logged
  <2>11. PICK g : Accounts(stack, g, n, world)
    BY <1>1 DEF Accounted
  <2>12. Accounts(Rest, g, n - 1, w2)
    BY <1>1, <1>2, <1>3, <2>9, <2>10, <2>11, Ends
  <2> QED
    BY <1>3, <2>7, <2>8, <2>12 DEF Accounted
<1> QED
  BY <1>4, <1>5 DEF ExecEnds

LEMMA EndsAccounts ==
    ASSUME IInv, Accounted, BatchEnds \/ AccessorEnds \/ HandlerEnds \/ SimulationEnds \/ ExecEnds \/ OutOfGas
    PROVE  Accounted'
<1>1. CASE BatchEnds
  BY <1>1, RevertAccounts, ReturnAccounts DEF BatchEnds, Ending, NoMore
<1>2. CASE AccessorEnds
  BY <1>2, ReturnAccounts DEF AccessorEnds, Ending, NoMore, Lenient
<1>5. CASE HandlerEnds
  BY <1>5, RevertAccounts, ReturnAccounts DEF HandlerEnds, Ending, NoMore, Lenient
<1>3. CASE SimulationEnds
  BY <1>3, RevertAccounts DEF SimulationEnds, Ending
<1>4. CASE OutOfGas
  BY <1>4, RevertAccounts DEF OutOfGas
<1> QED
  BY <1>1, <1>2, <1>3, <1>4, <1>5, ExecEndsAccounts

\* A library makes the calls inside item for the caller.
LEMMA LentAccounts ==
    ASSUME IInv, Accounted, NEW item, Performed(item), NEW c, Lends(Top, c), sender \in Safe, c.before = world,
           stack' = Append(Continued, c), UNCHANGED world
    PROVE  Accounted'
<1>1. PICK n : n = Len(stack)
  OBVIOUS
<1>2. Running /\ n + 1 <= MaxDepth
  BY <1>1, Sender DEF Performed
<1>3. /\ n \in Nat /\ n # 0 /\ stack[n] = Top /\ Same(stack, n - 1, Continued) /\ Len(Continued) = n
      /\ Continued \in Seq(Call) /\ Popped(stack[n], Continued[n]) /\ ~stack[n].failed
  BY <1>1, <1>2, ContinuedPops
<1>4. PICK st : st = Append(Continued, c)
  OBVIOUS
<1>5. c \in Call /\ n \in 1..n
  BY <1>3 DEF Lends
<1>6. Len(st) = n + 1 /\ st[n + 1] = c /\ Same(stack, n - 1, st) /\ st[n] = Continued[n]
  BY <1>3, <1>4, <1>5, AppendFacts DEF Same
<1>7. PICK g : Accounts(stack, g, n, world)
  BY <1>1 DEF Accounted
<1>8. \E g2 : Accounts(st, g2, n + 1, world)
  BY <1>2, <1>3, <1>6, <1>7, StackFacts, EntersLent
<1> QED
  BY <1>4, <1>6, <1>8 DEF Accounted

\* A call that nobody delegates is made.
LEMMA AloneAccounts ==
    ASSUME IInv, Accounted, NEW item, Performed(item), item.operation = "call", item.to \in Library \cup Safe,
           NEW c, Starts(c, world), stack' = Append(Continued, c),
           world' \in World, Equal(world, world'), NoLess(world, world'),
           c.kind = "exec" => c.entry.nonce < Count(world', c.entry)
    PROVE  Accounted'
<1>1. PICK n \in Nat : n = Len(stack)
  BY StackFacts
<1>2. PICK w, w2, st : w = world /\ w2 = world' /\ st = Append(Continued, c)
  OBVIOUS
<1>3. PICK g : Accounts(stack, g, n, w)
  BY <1>1, <1>2 DEF Accounted
<1>4. w \in World /\ w2 \in World /\ Equal(w, w2) /\ NoLess(w, w2) /\ c \in Call /\ Starts(c, w)
  BY <1>2, StackFacts DEF Starts
<1>5. /\ Continued \in Seq(Call) /\ Len(Continued) = n /\ Same(stack, n - 1, Continued)
  BY <1>1, ContinuedFacts DEF Performed
<1>6. /\ Len(st) = n + 1 /\ st[n + 1] = c /\ (n # 0 => st[n] = Continued[n])
      /\ Same(stack, n - 1, st)
  <2>1. n # 0 => n \in 1..n
    OBVIOUS
  <2>2. Len(st) = n + 1 /\ st[n + 1] = c /\ \A j \in 1..n : st[j] = Continued[j]
    BY <1>2, <1>4, <1>5, AppendFacts
  <2>3. \A j \in 1..(n - 1) : j \in 1..n
    OBVIOUS
  <2> QED
    BY <1>5, <2>1, <2>2, <2>3 DEF Same
<1>7. ASSUME n # 0
      PROVE  ~stack[n].failed /\ ~st[n].failed /\ Popped(stack[n], st[n]) /\ Single(stack[n], w, w)
  <2>1. Running
    BY <1>1, <1>7, StackFacts DEF Performed
  <2>2. /\ stack[n] = Top /\ Popped(stack[n], Continued[n])
        /\ ~stack[n].failed /\ ~Continued[n].failed
    BY <1>1, <2>1, ContinuedPops
  <2>3. item = Head(stack[n].todo)
    BY <2>1, <2>2 DEF Performed, Running
  <2>4. Binding(item) = <<>> /\ Own(item) = 0 /\ \A s : Delivered(w, s, item)
    <3>1. Inside(item) = <<>>
      BY DEF Inside
    <3>2. Binding(item) = <<>>
      BY <3>1 DEF Binding
    <3>3. Own(item) = 0
      BY DEF Own
    <3>4. \A s : Delivered(w, s, item)
      BY DEF Delivered, Is
    <3> QED
      BY <3>2, <3>3, <3>4
  <2>5. \A s \in Safe : w.touched[s] \in Nat
    BY <1>4 DEF World
  <2>6. Single(stack[n], w, w)
    BY <2>3, <2>4, <2>5 DEF Single, Grown
  <2> QED
    BY <1>6, <1>7, <2>2, <2>6
<1>8. st[n + 1].kind = "exec" => st[n + 1].entry.nonce < Count(w2, st[n + 1].entry)
  BY <1>2, <1>6
<1>9. Starts(st[n + 1], w)
  BY <1>4, <1>6
<1>10. \E g2 : Accounts(st, g2, n + 1, w2)
  BY <1>3, <1>4, <1>6, <1>7, <1>8, <1>9, EntersAlone
<1> QED
  BY <1>2, <1>6, <1>10 DEF Accounted

\* The Safe that delegates item has a library make the calls inside it.
LEMMA LibraryAccounts ==
    ASSUME IInv, Accounted, NEW item, Performed(item), item.operation = "delegatecall",
           item.to \in {"MultiSend", "MultiSendCallOnly", "SimulateTxAccessor"},
           NEW kind \in {"batch", "callOnly", "accessor"}, (kind = "accessor") <=> (item.to = "SimulateTxAccessor"),
           NEW todo \in Seq(Item), todo = Inside(item), Enter(Frame(kind, sender, todo)), UNCHANGED world
    PROVE  Accounted'
<1>1. sender \in Safe /\ stack # <<>> /\ Running
  BY Sender DEF Performed
<1>2. sender \in Party /\ sender = Top.self /\ item = Head(Top.todo)
  BY <1>1 DEF Party, sender, Performed
<1>3. PICK c : c = Frame(kind, sender, todo)
  OBVIOUS
<1>4. c \in Call /\ c.kind = kind /\ c.self = sender /\ c.todo = todo /\ c.before = world
  BY <1>2, <1>3, FrameFacts
<1>5. ~c.failed
  BY <1>3 DEF Frame
<1>6. Binding(item) = IF kind = "accessor" THEN <<>> ELSE todo
  BY DEF Binding
<1>7. Lends(Top, c)
  BY <1>1, <1>2, <1>4, <1>5, <1>6 DEF Lends, Lenient
<1>8. stack' = Append(Continued, c)
  BY <1>3 DEF Enter
<1> QED
  BY <1>1, <1>4, <1>7, <1>8, LentAccounts

\* A call is made in the name of no Safe, or a simulation begins.
LEMMA PlainAccounts ==
    ASSUME IInv, Accounted, NEW item, Performed(item), item.operation = "call", item.to \in Library \cup Safe,
           NEW kind \in {"batch", "callOnly", "accessor", "handler", "simulation"}, NEW a \in Party,
           kind = "simulation" \/ a \notin Safe,
           NEW todo \in Seq(Item), Enter(Frame(kind, a, todo)), UNCHANGED world
    PROVE  Accounted'
<1>1. PICK c : c = Frame(kind, a, todo)
  OBVIOUS
<1>2. c \in Call /\ c.kind = kind /\ c.self = a /\ c.before = world
  BY <1>1, FrameFacts
<1>3. ~c.failed
  BY <1>1 DEF Frame
<1>4. Starts(c, world)
  BY <1>2, <1>3 DEF Starts, Delegated
<1>5. stack' = Append(Continued, c) /\ world' \in World
  BY <1>1, StackFacts DEF Enter
<1>6. Equal(world, world') /\ NoLess(world, world')
  BY StackFacts, SameCountsMove DEF Equal, SameCounts
<1>7. c.kind # "exec"
  BY <1>2
<1> QED
  BY <1>4, <1>5, <1>6, <1>7, AloneAccounts

LEMMA CallBinds ==
    ASSUME NEW item, item.operation = "call" \/ item.to \notin {"MultiSend", "MultiSendCallOnly"}
    PROVE  Binding(item) = <<>>
<1>1. CASE item.operation = "call"
  <2>1. Inside(item) = <<>>
    BY <1>1 DEF Inside
  <2> QED
    BY <2>1 DEF Binding
<1>2. CASE item.to \notin {"MultiSend", "MultiSendCallOnly", "SimulateTxAccessor"}
  <2>1. Inside(item) = <<>>
    BY <1>2 DEF Inside
  <2> QED
    BY <2>1 DEF Binding
<1>3. CASE item.to = "SimulateTxAccessor"
  BY <1>3 DEF Binding
<1> QED
  BY <1>1, <1>2, <1>3

LEMMA LibraryCallAccounts ==
    ASSUME IInv, Accounted, NEW item, Performed(item),
           multiSend(item) \/ multiSendCallOnly(item) \/ simulate(item)
    PROVE  Accounted'
<1>1. /\ item \in Item /\ (stack = <<>> \/ Running)
      /\ (item.operation = "delegatecall" => sender \in Safe)
  BY Sender
<1>2. /\ item.operation \in {"call", "delegatecall"}
      /\ Calls(item, "multiSend") => item.data.multiSend \in Seq(Item)
      /\ Calls(item, "simulate") => item.data.simulate \in Item
  BY <1>1, Parameters
<1>3. CASE Fail
  BY <1>1, <1>3, FailAccounts
<1>4. CASE multiSend(item) /\ ~Fail
  <2>1. item.operation = "delegatecall" /\ self(item) = sender /\ item.to = "MultiSend"
    BY <1>2, <1>4 DEF self, multiSend
  <2>2. PICK q : q = item.data.multiSend
    OBVIOUS
  <2>3. q \in Seq(Item) /\ q = Inside(item) /\ Enter(Frame("batch", sender, q)) /\ UNCHANGED world
    BY <1>2, <1>4, <2>1, <2>2 DEF multiSend, Inside
  <2> QED
    BY <2>1, <2>3, LibraryAccounts
<1>5. CASE multiSendCallOnly(item)
  <2>1. item.to = "MultiSendCallOnly" /\ item.to \in Library
    BY <1>5 DEF multiSendCallOnly, Library
  <2>2. PICK q : q = item.data.multiSend
    OBVIOUS
  <2>3. q \in Seq(Item) /\ Enter(Frame("callOnly", self(item), q)) /\ UNCHANGED world
    BY <1>2, <1>5, <2>2 DEF multiSendCallOnly
  <2>4. CASE item.operation = "delegatecall"
    <3>1. self(item) = sender /\ q = Inside(item)
      BY <1>5, <2>1, <2>2, <2>4 DEF self, Inside, multiSendCallOnly
    <3> QED
      BY <2>1, <2>3, <2>4, <3>1, LibraryAccounts
  <2>5. CASE item.operation = "call"
    <3>1. self(item) = item.to
      BY <2>5 DEF self
    <3>2. item.to \in Party /\ item.to \notin Safe
      BY <2>1, NotSafe DEF Party
    <3>3. Enter(Frame("callOnly", item.to, q))
      BY <2>3, <3>1
    <3> QED
      BY <2>1, <2>3, <2>5, <3>2, <3>3, PlainAccounts
  <2> QED
    BY <1>2, <2>4, <2>5
<1>6. CASE simulate(item) /\ ~Fail
  <2>1. item.operation = "delegatecall" /\ self(item) = sender /\ item.to = "SimulateTxAccessor"
    BY <1>2, <1>6 DEF self, simulate
  <2>2. PICK q : q = <<item.data.simulate>>
    OBVIOUS
  <2>3. q \in Seq(Item)
    BY <1>2, <1>6, <2>2 DEF simulate
  <2>4. q = Inside(item) /\ Enter(Frame("accessor", sender, q)) /\ UNCHANGED world
    BY <1>6, <2>1, <2>2 DEF simulate, Inside
  <2> QED
    BY <2>1, <2>3, <2>4, LibraryAccounts
<1> QED
  BY <1>3, <1>4, <1>5, <1>6

LEMMA SimulationAccounts ==
    ASSUME IInv, Accounted, NEW item, Performed(item), simulateAndRevert(item)
    PROVE  Accounted'
<1>1. item.to \in Safe /\ item.to \in Party /\ item.operation = "call"
  BY DEF simulateAndRevert, ToSafe, Party
<1>2. item.data.simulateAndRevert \in Item
  BY Sender, Parameters DEF simulateAndRevert
<1>3. PICK q : q = <<item.data.simulateAndRevert>>
  OBVIOUS
<1>4. q \in Seq(Item) /\ Enter(Frame("simulation", item.to, q)) /\ UNCHANGED world
  BY <1>2, <1>3 DEF simulateAndRevert
<1> QED
  BY <1>1, <1>4, PlainAccounts

\* The call item changes nothing that the accounts speak of.
LEMMA QuietAccounts ==
    ASSUME IInv, Accounted, NEW item, Performed(item), item.operation = "call", item.to \in Library \cup Safe,
           stack' = Continued, world' \in World, SameCounts(world, world'), Equal(world, world')
    PROVE  Accounted'
<1>1. Binding(item) = <<>>
  BY CallBinds
<1>2. Own(item) = 0 /\ \A s : Delivered(world', s, item)
  BY DEF Own, Delivered, Is
<1>3. \A s \in Safe : world.touched[s] \in Nat
  BY StackFacts DEF World
<1>4. \A s \in Safe : world'.touched[s] = world.touched[s] + (IF s = sender THEN Own(item) ELSE 0)
  BY <1>2, <1>3 DEF Equal
<1>5. Grown(world, world') /\ world'.log = world.log
  BY DEF Equal, Grown
<1> QED
  BY <1>1, <1>2, <1>4, <1>5, DoAccounts

LEMMA HandlerAccounts ==
    ASSUME IInv, Accounted, NEW item, Performed(item), simulateByHandler(item)
    PROVE  Accounted'
<1>1. item \in Item /\ item.to \in Library \cup Safe /\ item.operation = "call" /\ world \in World
  BY Sender, StackFacts DEF simulateByHandler, ToSafe
<1>2. CASE Do(world)
  <2>1. Equal(world, world') /\ SameCounts(world, world') /\ world' = world /\ stack' = Continued
    BY <1>2 DEF Do, Equal, SameCounts
  <2> QED
    BY <1>1, <2>1, QuietAccounts
<1>3. CASE ~Do(world)
  <2>1. PICK call : call = Send(item.to, [simulateAndRevert |-> item.data.simulateByHandler])
    OBVIOUS
  <2>2. call \in Item /\ Enter(Frame("handler", "handler", <<call>>)) /\ UNCHANGED world
    BY <1>1, <1>3, <2>1, Parameters DEF simulateByHandler
  <2>3. PICK q : q = <<call>>
    OBVIOUS
  <2>4. "handler" \in Party /\ "handler" \notin Safe /\ q \in Seq(Item)
    BY <2>2, <2>3, NotSafe DEF Party
  <2> QED
    BY <1>1, <2>2, <2>3, <2>4, PlainAccounts
<1> QED
  BY <1>2, <1>3

LEMMA SettingAccounts ==
    ASSUME IInv, Accounted, NEW item, Performed(item),
           \/ setGuard(item) \/ setFallbackHandler(item) \/ approveHash(item)
           \/ enableModule(item) \/ disableModule(item)
    PROVE  Accounted'
<1>1. /\ item \in Item /\ (stack = <<>> \/ Running) /\ world \in World
      /\ item.to \in Safe /\ item.operation = "call"
  BY Sender, StackFacts DEF setGuard, setFallbackHandler, approveHash, enableModule, disableModule, ToSafe
<1>2. CASE Fail
  BY <1>1, <1>2, FailAccounts
<1>3. CASE ~Fail
  <2>1. PICK w : w = world'
    OBVIOUS
  <2>2. w \in World
    <3>1. IInv'
      BY SetGuardIInv, SetFallbackHandlerIInv, ApproveHashIInv, ModulesIInv
    <3> QED
      BY <2>1, <3>1 DEF IInv, Inv
  <2>3. Equal(world, w) /\ SameCounts(world, w) /\ stack' = Continued
    <3>1. CASE setGuard(item)
      BY <1>1, <1>3, <2>1, <3>1, WorldType DEF setGuard, Do, Equal, SameCounts
    <3>2. CASE setFallbackHandler(item)
      BY <1>1, <1>3, <2>1, <3>2, WorldType DEF setFallbackHandler, Do, Equal, SameCounts
    <3>3. CASE approveHash(item)
      BY <1>1, <1>3, <2>1, <3>3, WorldType DEF approveHash, Do, Equal, SameCounts
    <3>4. CASE enableModule(item)
      BY <1>1, <1>3, <2>1, <3>4, WorldType DEF enableModule, Do, Equal, SameCounts
    <3>5. CASE disableModule(item)
      BY <1>1, <1>3, <2>1, <3>5, WorldType DEF disableModule, Do, Equal, SameCounts
    <3> QED
      BY <3>1, <3>2, <3>3, <3>4, <3>5
  <2> QED
    BY <1>1, <2>1, <2>2, <2>3, QuietAccounts
<1> QED
  BY <1>2, <1>3

LEMMA EffectAccounts ==
    ASSUME IInv, Accounted, NEW item, Performed(item), signMessage(item) \/ migrate(item)
    PROVE  Accounted'
<1>1. /\ item \in Item /\ (stack = <<>> \/ Running) /\ world \in World
      /\ item.operation \in {"call", "delegatecall"}
      /\ (item.operation = "delegatecall" => sender \in Safe)
  BY Sender, StackFacts, Parameters
<1>2. CASE Fail
  BY <1>1, <1>2, FailAccounts
<1>3. ASSUME ~Fail
      PROVE  self(item) = sender /\ sender \in Safe
  BY <1>1, <1>3, NotSafe DEF self, signMessage, migrate, Library
<1>4. ASSUME ~Fail
      PROVE  world' \in World
  <2>1. IInv'
    BY SignMessageIInv, MigrateIInv
  <2> QED
    BY <2>1 DEF IInv, Inv
<1>5. Binding(item) = <<>> /\ Own(item) = 0
  <2>1. item.to \in {"SignMessageLib", "Migration"}
    BY DEF signMessage, migrate
  <2>2. Own(item) = 0
    BY <2>1 DEF Own, Library
  <2> QED
    BY <2>1, <2>2, CallBinds
<1>6. \A s \in Safe : world.touched[s] = world.touched[s] + (IF s = sender THEN Own(item) ELSE 0)
  BY <1>1, <1>5 DEF World
<1>7. CASE signMessage(item) /\ ~Fail
  <2>1. PICK x, y : x = world.signed \cup {y} /\ y = <<sender, item.data.signMessage>>
    OBVIOUS
  <2>2. world' = [world EXCEPT !.signed = x] /\ stack' = Continued
    BY <1>3, <1>7, <2>1 DEF signMessage, Do
  <2>3. PICK w : w = world'
    OBVIOUS
  <2>4. /\ w.log = world.log /\ SameCounts(world, w) /\ w.touched = world.touched
        /\ w.signed = x /\ w.migrated = world.migrated
    BY <1>1, <2>2, <2>3, WorldType DEF SameCounts
  <2>5. Grown(world, w) /\ y \in w.signed
    BY <2>1, <2>4 DEF Grown
  <2>6. item.to # "Migration"
    BY <1>7 DEF signMessage
  <2>7. Delivered(w, sender, item)
    BY <2>1, <2>5, <2>6 DEF Delivered, Is
  <2> QED
    BY <1>4, <1>5, <1>6, <1>7, <2>2, <2>3, <2>4, <2>5, <2>7, DoAccounts
<1>8. CASE migrate(item) /\ ~Fail
  <2>1. PICK x : x = world.migrated \cup {sender}
    OBVIOUS
  <2>2. world' = [world EXCEPT !.migrated = x] /\ stack' = Continued
    BY <1>3, <1>8, <2>1 DEF migrate, Do
  <2>3. PICK w : w = world'
    OBVIOUS
  <2>4. /\ w.log = world.log /\ SameCounts(world, w) /\ w.touched = world.touched
        /\ w.signed = world.signed /\ w.migrated = x
    BY <1>1, <2>2, <2>3, WorldType DEF SameCounts
  <2>5. Grown(world, w) /\ sender \in w.migrated
    BY <2>1, <2>4 DEF Grown
  <2>6. item.to # "SignMessageLib"
    BY <1>8 DEF migrate
  <2>7. Delivered(w, sender, item)
    BY <2>5, <2>6 DEF Delivered, Is
  <2> QED
    BY <1>4, <1>5, <1>6, <1>8, <2>2, <2>3, <2>4, <2>5, <2>7, DoAccounts
<1> QED
  BY <1>2, <1>7, <1>8

LEMMA ForeignAccounts ==
    ASSUME IInv, Accounted, NEW item, Performed(item), Foreign(item)
    PROVE  Accounted'
<1>1. (stack = <<>> \/ Running) /\ world \in World /\ item.to \notin Library
  BY Sender, StackFacts DEF Foreign
<1>2. CASE Fail
  BY <1>1, <1>2, FailAccounts
<1>3. CASE ~Fail
  <2>1. PICK x : x = IF sender \in Safe /\ item.to \notin Safe
                     THEN [world.touched EXCEPT ![sender] = @ + 1] ELSE world.touched
    OBVIOUS
  <2>2. PICK w : w = world'
    OBVIOUS
  <2>3. w = [world EXCEPT !.touched = x] /\ stack' = Continued
    BY <1>1, <1>3, <2>1, <2>2, WorldType DEF Foreign, Do
  <2>4. /\ x \in [Safe -> Nat]
        /\ \A s \in Safe : x[s] = world.touched[s] + (IF s = sender THEN Own(item) ELSE 0)
    BY <1>1, <2>1 DEF World, Own
  <2>5. /\ w \in World /\ w.log = world.log /\ SameCounts(world, w) /\ w.touched = x
        /\ w.signed = world.signed /\ w.migrated = world.migrated
    BY <1>1, <2>3, <2>4, WorldType DEF SameCounts
  <2>6. Grown(world, w)
    BY <2>5 DEF Grown
  <2>7. Binding(item) = <<>>
    BY <1>1, CallBinds DEF Library
  <2>8. \A s : Delivered(w, s, item)
    BY <1>1 DEF Delivered, Is, Library
  <2> QED
    BY <2>2, <2>3, <2>4, <2>5, <2>6, <2>7, <2>8, DoAccounts
<1> QED
  BY <1>2, <1>3

LEMMA ExecTransactionAccounts ==
    ASSUME IInv, Accounted, NEW item, Performed(item), execTransaction(item)
    PROVE  Accounted'
<1>1. /\ item \in Item /\ (stack = <<>> \/ Running) /\ world \in World
      /\ item.to \in Safe /\ item.operation = "call" /\ Calls(item, "execTransaction")
  BY Sender, StackFacts DEF execTransaction, ToSafe
<1>2. PICK s, tx, nonce, g, by :
          /\ s = item.to /\ tx = item.data.execTransaction /\ nonce = world.nonce[s]
          /\ g = world.guard[s] /\ by = Approvers(s, txHash(s, tx, nonce))
  OBVIOUS
<1>3. s \in Safe /\ tx \in Tx /\ tx.item \in Item /\ nonce \in Nat /\ g \in Guard
  BY <1>1, <1>2, Parameters, WorldType DEF Tx
<1>4. by \subseteq Safe \cup Key
  BY <1>2, <1>3, OwnersFinite DEF Approvers, Confirming
<1>5. CASE Fail
  BY <1>1, <1>5, FailAccounts
<1>6. CASE ~Fail
  <2>1. PICK e : e = [safe |-> s, tx |-> tx, nonce |-> nonce, by |-> by, module |-> FALSE, ok |-> FALSE]
    OBVIOUS
  <2>2. PICK f, q : q = <<tx.item>> /\ f = [Frame("exec", s, q) EXCEPT !.entry = e, !.guard = g]
    OBVIOUS
  <2>3. PICK l, m : l = Entered(g, world.guards, tx.item, nonce) /\ m = [world.nonce EXCEPT ![s] = nonce + 1]
    OBVIOUS
  <2>4. stack' = Append(Continued, f) /\ world' = [world EXCEPT !.nonce = m, !.guards = l]
    BY <1>2, <1>6, <2>1, <2>2, <2>3 DEF execTransaction, Enter
  <2>5. /\ e \in Entry /\ e.safe = s /\ e.tx = tx /\ e.nonce = nonce /\ e.module = FALSE
        /\ q \in Seq(Item) /\ s \in Party
    BY <1>3, <1>4, <2>1, <2>2 DEF Entry, Party
  <2>6. /\ f \in Call /\ f.kind = "exec" /\ f.self = s /\ f.before = world /\ f.entry = e /\ f.todo = q
        /\ f.failed = FALSE
    BY <1>1, <1>3, <2>2, <2>5 DEF Frame, Call
  <2>7. Starts(f, world)
    BY <1>2, <1>3, <2>2, <2>5, <2>6 DEF Starts, Delegated, Count
  <2>8. world' \in World
    <3>1. IInv'
      BY ExecTransactionIInv
    <3> QED
      BY <3>1 DEF IInv, Inv
  <2>9. PICK w : w = world'
    OBVIOUS
  <2>10. Equal(world, w) /\ w.nonce = m /\ w.ordered = world.ordered
    BY <1>1, <2>4, <2>9, WorldType DEF Equal
  <2>11. NoLess(world, w) /\ nonce < Count(w, e)
    <3>1. world.nonce \in [Safe -> Nat] /\ world.ordered \in [Safe -> Nat]
      BY <1>1, WorldType
    <3> QED
      BY <1>2, <1>3, <2>3, <2>5, <2>10, <3>1 DEF NoLess, Count
  <2> QED
    BY <1>1, <2>4, <2>5, <2>6, <2>7, <2>8, <2>9, <2>10, <2>11, AloneAccounts
<1> QED
  BY <1>5, <1>6

LEMMA ExecTransactionFromModuleAccounts ==
    ASSUME IInv, Accounted, NEW item, Performed(item), execTransactionFromModule(item)
    PROVE  Accounted'
<1>1. /\ item \in Item /\ (stack = <<>> \/ Running) /\ world \in World
      /\ item.to \in Safe /\ item.operation = "call" /\ item.data.execTransactionFromModule \in Item
  BY Sender, StackFacts, Parameters DEF execTransactionFromModule, ToSafe
<1>2. PICK s, i, tx, nonce :
          /\ s = item.to /\ i = item.data.execTransactionFromModule /\ tx = [item |-> i, tolerant |-> TRUE]
          /\ nonce = world.ordered[s]
  OBVIOUS
<1>3. s \in Safe /\ i \in Item /\ tx \in Tx /\ tx.item = i /\ nonce \in Nat
  BY <1>1, <1>2, WorldType DEF Tx
<1>4. CASE Fail
  BY <1>1, <1>4, FailAccounts
<1>5. CASE ~Fail
  <2>1. PICK e : e = [safe |-> s, tx |-> tx, nonce |-> nonce, by |-> {}, module |-> TRUE, ok |-> FALSE]
    OBVIOUS
  <2>2. PICK f, q : q = <<tx.item>> /\ f = [Frame("exec", s, q) EXCEPT !.entry = e]
    OBVIOUS
  <2>3. PICK m : m = [world.ordered EXCEPT ![s] = nonce + 1]
    OBVIOUS
  <2>4. stack' = Append(Continued, f) /\ world' = [world EXCEPT !.ordered = m]
    BY <1>2, <1>5, <2>1, <2>2, <2>3 DEF execTransactionFromModule, Enter
  <2>5. /\ e \in Entry /\ e.safe = s /\ e.tx = tx /\ e.nonce = nonce /\ e.module = TRUE
        /\ q \in Seq(Item) /\ s \in Party
    BY <1>3, <2>1, <2>2 DEF Entry, Party
  <2>6. /\ f \in Call /\ f.kind = "exec" /\ f.self = s /\ f.before = world /\ f.entry = e /\ f.todo = q
        /\ f.failed = FALSE
    BY <1>1, <1>3, <2>2, <2>5 DEF Frame, Call, Guard
  <2>7. Starts(f, world)
    BY <1>2, <1>3, <2>2, <2>5, <2>6 DEF Starts, Delegated, Count
  <2>8. world' \in World
    <3>1. IInv'
      BY ExecTransactionFromModuleIInv
    <3> QED
      BY <3>1 DEF IInv, Inv
  <2>9. PICK w : w = world'
    OBVIOUS
  <2>10. Equal(world, w) /\ w.ordered = m /\ w.nonce = world.nonce
    BY <1>1, <2>4, <2>9, WorldType DEF Equal
  <2>11. NoLess(world, w) /\ nonce < Count(w, e)
    <3>1. world.nonce \in [Safe -> Nat] /\ world.ordered \in [Safe -> Nat]
      BY <1>1, WorldType
    <3> QED
      BY <1>2, <1>3, <2>3, <2>5, <2>10, <3>1 DEF NoLess, Count
  <2> QED
    BY <1>1, <2>4, <2>5, <2>6, <2>7, <2>8, <2>9, <2>10, <2>11, AloneAccounts
<1> QED
  BY <1>4, <1>5

LEMMA PerformAccounts ==
    ASSUME IInv, Accounted, NEW item, Performed(item), Perform(item)
    PROVE  Accounted'
  BY LibraryCallAccounts, EffectAccounts, SimulationAccounts, HandlerAccounts, ExecTransactionAccounts,
     ExecTransactionFromModuleAccounts, SettingAccounts, ForeignAccounts DEF Perform

LEMMA NextAccounts ==
    ASSUME IInv, Accounted, [Next]_vars
    PROVE  Accounted'
<1>1. CASE stack = <<>> /\ \E item \in Outside : Perform(item)
  <2>1. PICK item \in Outside : Perform(item)
    BY <1>1
  <2> QED
    BY <1>1, <2>1, PerformAccounts DEF Performed
<1>2. CASE NextItem
  <2>1. CASE TooDeep \/ Refused(Head(Top.todo))
    BY <1>2, <2>1, FailAccounts DEF NextItem
  <2>2. CASE ~(TooDeep \/ Refused(Head(Top.todo)))
    BY <1>2, <2>2, PerformAccounts DEF NextItem, Performed
  <2> QED
    BY <2>1, <2>2
<1>3. CASE BatchEnds \/ AccessorEnds \/ HandlerEnds \/ SimulationEnds \/ ExecEnds \/ OutOfGas
  BY <1>3, EndsAccounts
<1>4. CASE UNCHANGED vars
  BY <1>4 DEF vars, Accounted
<1> QED
  BY <1>1, <1>2, <1>3, <1>4 DEF Next

LEMMA InitAccounts ==
    ASSUME Init
    PROVE  Accounted
<1>1. /\ stack = <<>> /\ Len(stack) = 0 /\ world.log = {}
      /\ \A s \in Safe : world.touched[s] = 0
  BY DEF Init
<1>2. Books(world)
  BY <1>1, FS_EmptySet DEF Books
<1>3. ASSUME NEW inside, NEW s \in Safe
      PROVE  Excess(inside, world, s) = 0
  <2>1. Finished(world, s) = {}
    BY <1>1 DEF Finished
  <2>2. PICK f : f = [e \in Finished(world, s) |-> Touches(inside, e.tx)]
    OBVIOUS
  <2>3. SumFunctionOnSet(f, {}) = 0
    BY SumEmpty
  <2>4. Owed(inside, world, s) = 0
    BY <2>1, <2>2, <2>3 DEF Owed
  <2> QED
    BY <1>1, <2>4 DEF Excess
<1>4. Balanced(world)
  BY <1>3 DEF Balanced
<1>5. Accounts(stack, <<>>, 0, world)
  BY <1>1, <1>2, <1>4 DEF Accounts, Under, Recorded, OpenNonces
<1> QED
  BY <1>1, <1>5 DEF Accounted

LEMMA AskedIsDone ==
    ASSUME Books(world), NEW s, NEW to, NEW operation, NEW function, NEW item \in Asked(Sure, s, to, operation, function)
    PROVE  Delivered(world, s, item) /\ Is(item, to, operation, function)
<1>1. PICK e \in Done(s) : item \in Parts(Sure, e.tx)
  BY DEF Asked
<1>2. e \in world.log /\ e.safe = s /\ e.ok
  BY <1>1 DEF Done
<1> QED
  BY <1>1, <1>2 DEF Books, Asked, Is

LEMMA TouchesAreOwed ==
    ASSUME NEW inside, NEW s
    PROVE  AskedTouches(inside, s) = Owed(inside, world, s)
  BY DEF AskedTouches, Owed, SumFunction, Done, Finished

\* Between transactions a Safe has signed every message, has migrated and
\* has called other contracts as often as the transactions of its owners
\* that succeeded asked for, whatever was nested, failed or simulated on the
\* way; only what is delegated to SimulateTxAccessor may be missing.
THEOREM AllOrNothingHolds == Spec => []AllOrNothing
<1>1. ASSUME IInv, Accounted PROVE AllOrNothing
  <2> SUFFICES ASSUME stack = <<>>, NEW s \in Safe
               PROVE  /\ \A item \in AskedToSign(Sure, s) : <<s, item.data.signMessage>> \in world.signed
                      /\ AskedToMigrate(Sure, s) # {} => s \in world.migrated
                      /\ world.touched[s] \in AskedTouches(Sure, s)..AskedTouches(All, s)
    BY DEF AllOrNothing
  <2>1. Books(world) /\ Balanced(world)
    BY <1>1 DEF Accounted, Accounts, Recorded
  <2>2. \A item \in AskedToSign(Sure, s) : <<s, item.data.signMessage>> \in world.signed
    BY <2>1, AskedIsDone DEF AskedToSign, Delivered
  <2>3. AskedToMigrate(Sure, s) # {} => s \in world.migrated
    BY <2>1, AskedIsDone DEF AskedToMigrate, Delivered
  <2>4. /\ world.touched[s] \in Nat /\ Owed(All, world, s) \in Nat /\ Owed(Sure, world, s) \in Nat
        /\ Excess(All, world, s) <= 0 /\ Excess(Sure, world, s) >= 0
    BY <1>1, <2>1, StackFacts, AllInside, OwedNatural DEF Books, Balanced, World
  <2>5. world.touched[s] \in AskedTouches(Sure, s)..AskedTouches(All, s)
    BY <2>4, TouchesAreOwed DEF Excess
  <2> QED
    BY <2>2, <2>3, <2>5
<1>2. Init => Accounted
  BY InitAccounts
<1>3. IInv /\ Accounted /\ [Next]_vars => Accounted'
  BY NextAccounts
<1> QED
  BY <1>1, <1>2, <1>3, Invariance, PTL DEF Spec
=============================================================================
