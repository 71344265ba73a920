------------------------- MODULE CheckExecutorProofs -------------------------
(***************************************************************************)
(* Single use, exact register and payment of checks, for every set of      *)
(* checks and owners and every depth of nested calls.                      *)
(*                                                                         *)
(* The invariant speaks of a storage s under n calls in progress: the      *)
(* storage now under all of them, and the storage each of them returns to  *)
(* under those outside it.                                                 *)
(***************************************************************************)
EXTENDS CheckExecutor, FiniteSetTheorems, SequenceTheorems, TLAPS

Frame == [check : Check, phase : {"inner", "payment"}, before : StorageType]

UsesIn(s, c) == s.ledger[c].succeeded + s.ledger[c].failed

Claims(s, st, n, m) ==
    \/ \E c \in Check : c.checkNonce = m /\ UsesIn(s, c) > 0
    \/ \E j \in 1..n : st[j].phase = "inner" /\ st[j].check.checkNonce = m

\* Nobody has tampered with s: no nonce is claimed twice, by executed checks
\* or by calls that have not come back, and the register holds those claimed.
Single(s, st, n) ==
    /\ \A c \in Check : UsesIn(s, c) <= 1
    /\ \A c, d \in Check :
          c.checkNonce = d.checkNonce /\ UsesIn(s, c) > 0 /\ UsesIn(s, d) > 0 => c = d
    /\ \A m \in Nonce : m \in s.register <=> Claims(s, st, n, m)
    /\ \A j \in 1..n, c \in Check :
          st[j].phase = "inner" /\ c.checkNonce = st[j].check.checkNonce => UsesIn(s, c) = 0
    /\ \A i, j \in 1..n :
          /\ st[i].phase = "inner" /\ st[j].phase = "inner"
          /\ st[i].check.checkNonce = st[j].check.checkNonce
          => i = j

Owing(st, n, c) == {j \in 1..n : st[j].phase = "payment" /\ st[j].check = c}

\* What has been executed is paid, or about to be.
Accounted(s, st, n) ==
    \A c \in Check :
        /\ s.ledger[c].paid + Cardinality(Owing(st, n, c)) =
              IF c.gasPrice > 0 THEN UsesIn(s, c) ELSE 0
        /\ c.safeTxGas = 0 /\ c.gasPrice = 0 => s.ledger[c].failed = 0

Good(s, st, n) ==
    /\ ~s.tampered => Single(s, st, n)
    /\ Accounted(s, st, n)

\* A call in progress returns to a storage that was good before it.
Resumable(st, k) ==
    /\ Good(st[k].before, st, k - 1)
    /\ st[k].check.checkNonce \notin st[k].before.register

IInv ==
    /\ TypeOK
    /\ Good(Storage, stack, Len(stack))
    /\ \A k \in 1..Len(stack) : Resumable(stack, k)

Agree(st, tt, n) == \A j \in 1..n : tt[j] = st[j]

-----------------------------------------------------------------------------
(* Facts about storages and stacks, apart from any state. *)

LEMMA CheckFields ==
    ASSUME NEW c \in Check
    PROVE  /\ c.checkNonce \in Nonce /\ c.gasPrice \in {0, 1}
           /\ c.safeTxGas \in {0, 1} /\ c.checkOwner \in Account
BY CheckAssumption DEF CheckInfo

LEMMA UsesNat ==
    ASSUME NEW s \in StorageType, NEW c \in Check
    PROVE  /\ s.ledger[c].succeeded \in Nat /\ s.ledger[c].failed \in Nat
           /\ s.ledger[c].paid \in Nat /\ UsesIn(s, c) \in Nat
BY DEF StorageType, Ledger, UsesIn

LEMMA OwingFinite ==
    ASSUME NEW st, NEW n \in Nat, NEW c
    PROVE  IsFiniteSet(Owing(st, n, c)) /\ Cardinality(Owing(st, n, c)) \in Nat
<1>1. Owing(st, n, c) \in SUBSET (1..n)
  BY DEF Owing
<1>2. IsFiniteSet(1..n)
  BY FS_Interval
<1>3. IsFiniteSet(Owing(st, n, c))
  BY <1>1, <1>2, FS_Subset
<1> QED
  BY <1>3, FS_CardinalityType

\* One more call awaiting payment, or one more call that does not.
LEMMA OwingStep ==
    ASSUME NEW st, NEW n \in Nat \ {0}, NEW c
    PROVE  Cardinality(Owing(st, n, c)) =
             Cardinality(Owing(st, n - 1, c))
             + IF st[n].phase = "payment" /\ st[n].check = c THEN 1 ELSE 0
<1>1. IsFiniteSet(Owing(st, n - 1, c)) /\ Cardinality(Owing(st, n - 1, c)) \in Nat
  BY OwingFinite
<1>2. CASE st[n].phase = "payment" /\ st[n].check = c
  <2>1. Owing(st, n, c) = Owing(st, n - 1, c) \cup {n}
    BY <1>2 DEF Owing
  <2>2. n \notin Owing(st, n - 1, c)
    BY DEF Owing
  <2> QED
    BY <1>1, <1>2, <2>1, <2>2, FS_AddElement
<1>3. CASE ~(st[n].phase = "payment" /\ st[n].check = c)
  <2>1. Owing(st, n, c) = Owing(st, n - 1, c)
    BY <1>3 DEF Owing
  <2> QED
    BY <1>1, <1>3, <2>1
<1> QED
  BY <1>2, <1>3

\* Only the calls in progress count, not those above them.
LEMMA OwingAgree ==
    ASSUME NEW st, NEW tt, NEW n \in Nat, Agree(st, tt, n), NEW c
    PROVE  Owing(tt, n, c) = Owing(st, n, c)
BY DEF Agree, Owing

LEMMA GoodAgree ==
    ASSUME NEW s, NEW st, NEW tt, NEW n \in Nat, Agree(st, tt, n), Good(s, st, n)
    PROVE  Good(s, tt, n)
<1>1. ~s.tampered => Single(s, tt, n)
  BY DEF Good, Single, Claims, Agree
<1>2. Accounted(s, tt, n)
  BY OwingAgree DEF Good, Accounted
<1> QED
  BY <1>1, <1>2 DEF Good

\* What a storage is good for depends on its register, its ledger and on
\* whether it was tampered with.
LEMMA GoodFields ==
    ASSUME NEW s, NEW t, NEW st, NEW n \in Nat, Good(s, st, n),
           t.register = s.register, t.ledger = s.ledger, t.tampered = s.tampered
    PROVE  Good(t, st, n)
BY DEF Good, Single, Claims, Accounted, UsesIn

\* A fresh nonce is registered for the call that begins.
LEMMA Enter ==
    ASSUME NEW s \in StorageType, NEW t \in StorageType,
           NEW n \in Nat, NEW st, \A j \in 1..(n + 1) : st[j] \in Frame,
           Good(s, st, n), st[n + 1].phase = "inner",
           st[n + 1].check.checkNonce \notin s.register,
           t.register = s.register \cup {st[n + 1].check.checkNonce},
           t.ledger = s.ledger, t.tampered = s.tampered
    PROVE  Good(t, st, n + 1)
<1> DEFINE c == st[n + 1].check
<1>1. \A j \in 1..(n + 1) : st[j].check \in Check /\ st[j].check.checkNonce \in Nonce
  BY CheckFields DEF Frame
<1>2. n + 1 \in 1..(n + 1)
  OBVIOUS
<1>3. \A d \in Check : UsesIn(t, d) = UsesIn(s, d) /\ UsesIn(s, d) \in Nat
  BY UsesNat DEF UsesIn
<1>4. \A m \in Nonce : Claims(t, st, n + 1, m) <=> Claims(s, st, n, m) \/ m = c.checkNonce
  BY <1>1, <1>2, <1>3 DEF Claims
<1>5. ASSUME ~t.tampered PROVE Single(t, st, n + 1)
  <2>1. Single(s, st, n)
    BY <1>5 DEF Good
  <2>2. ~Claims(s, st, n, c.checkNonce)
    BY <1>1, <1>2, <2>1 DEF Single
  <2>3. \A m \in Nonce : m \in t.register <=> Claims(t, st, n + 1, m)
    BY <1>4, <2>1 DEF Single
  <2>4. \A j \in 1..(n + 1), d \in Check :
          st[j].phase = "inner" /\ d.checkNonce = st[j].check.checkNonce => UsesIn(t, d) = 0
    <3> SUFFICES ASSUME NEW j \in 1..(n + 1), NEW d \in Check,
                        st[j].phase = "inner", d.checkNonce = st[j].check.checkNonce
                 PROVE  UsesIn(t, d) = 0
      OBVIOUS
    <3>1. CASE j \in 1..n
      BY <3>1, <2>1, <1>3 DEF Single
    <3>2. CASE j = n + 1
      BY <3>2, <2>2, <1>3 DEF Claims
    <3> QED
      BY <3>1, <3>2
  <2>5. \A i, j \in 1..(n + 1) :
          /\ st[i].phase = "inner" /\ st[j].phase = "inner"
          /\ st[i].check.checkNonce = st[j].check.checkNonce
          => i = j
    <3>1. \A j \in 1..n : st[j].phase = "inner" => st[j].check.checkNonce # c.checkNonce
      BY <2>2 DEF Claims
    <3> QED
      BY <3>1, <2>1 DEF Single
  <2>6. /\ \A d \in Check : UsesIn(t, d) <= 1
        /\ \A d, e \in Check :
             d.checkNonce = e.checkNonce /\ UsesIn(t, d) > 0 /\ UsesIn(t, e) > 0 => d = e
    BY <2>1, <1>3 DEF Single
  <2> QED
    BY <2>3, <2>4, <2>5, <2>6 DEF Single
<1>6. \A d \in Check : Cardinality(Owing(st, n + 1, d)) = Cardinality(Owing(st, n, d))
  <2> SUFFICES ASSUME NEW d \in Check
               PROVE  Cardinality(Owing(st, n + 1, d)) = Cardinality(Owing(st, n, d))
    OBVIOUS
  <2>1. n + 1 \in Nat \ {0} /\ (n + 1) - 1 = n
    OBVIOUS
  <2>2. Cardinality(Owing(st, n, d)) \in Nat
    BY OwingFinite
  <2> QED
    BY <2>1, <2>2, OwingStep
<1>7. Accounted(t, st, n + 1)
  BY <1>3, <1>6 DEF Good, Accounted
<1> QED
  BY <1>5, <1>7 DEF Good
\* t counts one more execution of c than s does.
Counts(s, t, c) ==
    /\ t.register = s.register /\ t.tampered = s.tampered
    /\ \A d \in Check :
          /\ UsesIn(t, d) = UsesIn(s, d) + IF d = c THEN 1 ELSE 0
          /\ t.ledger[d].paid = s.ledger[d].paid
          /\ d.safeTxGas = 0 /\ d.gasPrice = 0 => t.ledger[d].failed = s.ledger[d].failed

\* The nonce of a call passes from the calls in progress to the checks
\* executed; m is the number of calls left.
LEMMA SingleExecuted ==
    ASSUME NEW s \in StorageType, NEW t \in StorageType,
           NEW n \in Nat \ {0}, NEW st, \A j \in 1..n : st[j] \in Frame,
           NEW tt, Agree(st, tt, n - 1),
           NEW m \in {n - 1, n}, m = n => tt[n].phase # "inner",
           st[n].phase = "inner", Single(s, st, n), Counts(s, t, st[n].check)
    PROVE  Single(t, tt, m)
<1> DEFINE c == st[n].check
<1>1. n \in 1..n
  OBVIOUS
<1>2. \A j \in 1..n : st[j].check \in Check /\ st[j].check.checkNonce \in Nonce
  BY CheckFields DEF Frame
<1>3. \A d \in Check : UsesIn(s, d) \in Nat
  BY UsesNat
<1>4. \A d \in Check : UsesIn(t, d) = UsesIn(s, d) + IF d = c THEN 1 ELSE 0
  BY DEF Counts
<1>5. \A d \in Check : d.checkNonce = c.checkNonce => UsesIn(s, d) = 0
  BY <1>1 DEF Single
<1>6. \A j \in 1..m : tt[j].phase = "inner" => j \in 1..(n - 1) /\ tt[j] = st[j]
  BY DEF Agree
<1>7. \A j \in 1..(n - 1) : st[j].phase = "inner" => st[j].check.checkNonce # c.checkNonce
  <2> SUFFICES ASSUME NEW j \in 1..(n - 1), st[j].phase = "inner",
                      st[j].check.checkNonce = c.checkNonce
               PROVE  FALSE
    OBVIOUS
  <2>1. j \in 1..n /\ j # n
    OBVIOUS
  <2> QED
    BY <1>1, <2>1 DEF Single
<1>8. \A k \in Nonce : k \in t.register <=> Claims(t, tt, m, k)
  <2> SUFFICES ASSUME NEW k \in Nonce
               PROVE  Claims(s, st, n, k) <=> Claims(t, tt, m, k)
    BY DEF Single, Counts
  <2>1. ASSUME Claims(s, st, n, k) PROVE Claims(t, tt, m, k)
    <3>1. CASE \E d \in Check : d.checkNonce = k /\ UsesIn(s, d) > 0
      BY <3>1, <1>3, <1>4 DEF Claims
    <3>2. CASE k = c.checkNonce
      BY <3>2, <1>1, <1>2, <1>3, <1>4 DEF Claims
    <3>3. CASE \E j \in 1..(n - 1) : st[j].phase = "inner" /\ st[j].check.checkNonce = k
      <4>1. \A j \in 1..(n - 1) : j \in 1..m /\ tt[j] = st[j]
        BY DEF Agree
      <4> QED
        BY <3>3, <4>1 DEF Claims
    <3>4. \A j \in 1..n : j = n \/ j \in 1..(n - 1)
      OBVIOUS
    <3> QED
      BY <2>1, <3>1, <3>2, <3>3, <3>4 DEF Claims
  <2>2. ASSUME Claims(t, tt, m, k) PROVE Claims(s, st, n, k)
    <3>1. CASE \E d \in Check : d.checkNonce = k /\ UsesIn(t, d) > 0
      BY <3>1, <1>1, <1>3, <1>4 DEF Claims
    <3>2. CASE \E j \in 1..m : tt[j].phase = "inner" /\ tt[j].check.checkNonce = k
      <4>1. \A j \in 1..(n - 1) : j \in 1..n
        OBVIOUS
      <4> QED
        BY <3>2, <1>6, <4>1 DEF Claims
    <3> QED
      BY <2>2, <3>1, <3>2 DEF Claims
  <2> QED
    BY <2>1, <2>2
<1>9. \A d \in Check : UsesIn(t, d) <= 1
  BY <1>3, <1>4, <1>5 DEF Single
<1>10. \A d, e \in Check :
          d.checkNonce = e.checkNonce /\ UsesIn(t, d) > 0 /\ UsesIn(t, e) > 0 => d = e
  BY <1>3, <1>4, <1>5 DEF Single
<1>11. \A j \in 1..m, d \in Check :
          tt[j].phase = "inner" /\ d.checkNonce = tt[j].check.checkNonce => UsesIn(t, d) = 0
  <2> SUFFICES ASSUME NEW j \in 1..m, NEW d \in Check, tt[j].phase = "inner",
                      d.checkNonce = tt[j].check.checkNonce
               PROVE  UsesIn(t, d) = 0
    OBVIOUS
  <2>1. j \in 1..(n - 1) /\ j \in 1..n /\ tt[j] = st[j]
    BY <1>6
  <2>2. UsesIn(s, d) = 0 /\ d # c
    BY <2>1, <1>7 DEF Single
  <2> QED
    BY <2>2, <1>4
<1>12. \A i, j \in 1..m :
          /\ tt[i].phase = "inner" /\ tt[j].phase = "inner"
          /\ tt[i].check.checkNonce = tt[j].check.checkNonce
          => i = j
  <2>1. \A j \in 1..(n - 1) : j \in 1..n
    OBVIOUS
  <2> QED
    BY <1>6, <2>1 DEF Single
<1> QED
  BY <1>8, <1>9, <1>10, <1>11, <1>12 DEF Single

\* A check without a price is settled when its call comes back.
LEMMA ExecutedFree ==
    ASSUME NEW s \in StorageType, NEW t \in StorageType,
           NEW n \in Nat \ {0}, NEW st, \A j \in 1..n : st[j] \in Frame,
           st[n].phase = "inner", st[n].check.gasPrice = 0,
           Good(s, st, n), Counts(s, t, st[n].check)
    PROVE  Good(t, st, n - 1)
<1>1. ~t.tampered => Single(t, st, n - 1)
  <2>1. Agree(st, st, n - 1)
    BY DEF Agree
  <2>2. n - 1 \in {n - 1, n} /\ (n - 1 = n => st[n].phase # "inner")
    OBVIOUS
  <2>3. ~t.tampered => Single(s, st, n)
    BY DEF Good, Counts
  <2> QED
    BY <2>1, <2>2, <2>3, SingleExecuted
<1>2. Accounted(t, st, n - 1)
  <2> SUFFICES ASSUME NEW d \in Check
               PROVE  /\ t.ledger[d].paid + Cardinality(Owing(st, n - 1, d)) =
                            IF d.gasPrice > 0 THEN UsesIn(t, d) ELSE 0
                      /\ d.safeTxGas = 0 /\ d.gasPrice = 0 => t.ledger[d].failed = 0
    BY DEF Accounted
  <2>1. Cardinality(Owing(st, n, d)) = Cardinality(Owing(st, n - 1, d))
    <3>1. Cardinality(Owing(st, n - 1, d)) \in Nat
      BY OwingFinite
    <3> QED
      BY <3>1, OwingStep
  <2>2. UsesIn(s, d) \in Nat
    BY UsesNat
  <2>3. /\ s.ledger[d].paid + Cardinality(Owing(st, n, d)) =
              IF d.gasPrice > 0 THEN UsesIn(s, d) ELSE 0
        /\ d.safeTxGas = 0 /\ d.gasPrice = 0 => s.ledger[d].failed = 0
    BY DEF Good, Accounted
  <2> QED
    BY <2>1, <2>2, <2>3 DEF Counts
<1> QED
  BY <1>1, <1>2 DEF Good

\* A check with a price is awaiting its payment when its call comes back.
LEMMA ExecutedPriced ==
    ASSUME NEW s \in StorageType, NEW t \in StorageType,
           NEW n \in Nat \ {0}, NEW st, \A j \in 1..n : st[j] \in Frame,
           NEW tt, Agree(st, tt, n - 1),
           tt[n].phase = "payment", tt[n].check = st[n].check,
           st[n].phase = "inner", st[n].check.gasPrice > 0,
           Good(s, st, n), Counts(s, t, st[n].check)
    PROVE  Good(t, tt, n)
<1>1. ~t.tampered => Single(t, tt, n)
  BY SingleExecuted DEF Good, Counts
<1>2. Accounted(t, tt, n)
  <2> SUFFICES ASSUME NEW d \in Check
               PROVE  /\ t.ledger[d].paid + Cardinality(Owing(tt, n, d)) =
                            IF d.gasPrice > 0 THEN UsesIn(t, d) ELSE 0
                      /\ d.safeTxGas = 0 /\ d.gasPrice = 0 => t.ledger[d].failed = 0
    BY DEF Accounted
  <2>1. Cardinality(Owing(st, n, d)) = Cardinality(Owing(st, n - 1, d))
    <3>1. Cardinality(Owing(st, n - 1, d)) \in Nat
      BY OwingFinite
    <3> QED
      BY <3>1, OwingStep
  <2>2. Cardinality(Owing(tt, n, d)) =
          Cardinality(Owing(st, n - 1, d)) + IF d = st[n].check THEN 1 ELSE 0
    BY OwingStep, OwingAgree
  <2>3. UsesIn(s, d) \in Nat /\ Cardinality(Owing(st, n - 1, d)) \in Nat
    BY UsesNat, OwingFinite
  <2>4. s.ledger[d].paid \in Nat /\ d.gasPrice \in {0, 1}
    BY UsesNat, CheckFields
  <2>5. /\ s.ledger[d].paid + Cardinality(Owing(st, n, d)) =
              IF d.gasPrice > 0 THEN UsesIn(s, d) ELSE 0
        /\ d.safeTxGas = 0 /\ d.gasPrice = 0 => s.ledger[d].failed = 0
    BY DEF Good, Accounted
  <2>6. UsesIn(t, d) = UsesIn(s, d) + IF d = st[n].check THEN 1 ELSE 0
    BY DEF Counts
  <2>7. CASE d = st[n].check
    <3>1. d.gasPrice > 0
      BY <2>7
    <3>2. t.ledger[d].paid = s.ledger[d].paid
      BY DEF Counts
    <3>3. s.ledger[d].paid + Cardinality(Owing(st, n - 1, d)) = UsesIn(s, d)
      BY <2>1, <2>5, <3>1
    <3>4. /\ Cardinality(Owing(tt, n, d)) = Cardinality(Owing(st, n - 1, d)) + 1
          /\ UsesIn(t, d) = UsesIn(s, d) + 1
      BY <2>2, <2>6, <2>7
    <3>5. t.ledger[d].paid + Cardinality(Owing(tt, n, d)) = UsesIn(t, d)
      BY <2>3, <2>4, <3>2, <3>3, <3>4
    <3>6. ~(d.gasPrice = 0)
      BY <3>1
    <3> QED
      BY <3>1, <3>5, <3>6
  <2>8. CASE d # st[n].check
    <3>1. /\ Cardinality(Owing(tt, n, d)) = Cardinality(Owing(st, n, d))
          /\ UsesIn(t, d) = UsesIn(s, d)
      BY <2>1, <2>2, <2>3, <2>6, <2>8
    <3>2. /\ t.ledger[d].paid = s.ledger[d].paid
          /\ d.safeTxGas = 0 /\ d.gasPrice = 0 => t.ledger[d].failed = s.ledger[d].failed
      BY DEF Counts
    <3> QED
      BY <2>5, <3>1, <3>2
  <2> QED
    BY <2>7, <2>8
<1> QED
  BY <1>1, <1>2 DEF Good

\* A payment settles the call that awaited it.
LEMMA Paid ==
    ASSUME NEW s \in StorageType, NEW t \in StorageType,
           NEW n \in Nat \ {0}, NEW st, \A j \in 1..n : st[j] \in Frame,
           st[n].phase = "payment", Good(s, st, n),
           t.register = s.register, t.tampered = s.tampered,
           \A d \in Check :
              /\ UsesIn(t, d) = UsesIn(s, d) /\ t.ledger[d].failed = s.ledger[d].failed
              /\ t.ledger[d].paid = s.ledger[d].paid + IF d = st[n].check THEN 1 ELSE 0
    PROVE  Good(t, st, n - 1)
<1>1. ~t.tampered => Single(t, st, n - 1)
  <2> SUFFICES ASSUME ~t.tampered PROVE Single(t, st, n - 1)
    OBVIOUS
  <2>1. Single(s, st, n)
    BY DEF Good
  <2>2. \A k \in Nonce : Claims(s, st, n, k) <=> Claims(t, st, n - 1, k)
    <3>1. \A j \in 1..n : st[j].phase = "inner" => j \in 1..(n - 1)
      OBVIOUS
    <3>2. \A j \in 1..(n - 1) : j \in 1..n
      OBVIOUS
    <3> QED
      BY <3>1, <3>2 DEF Claims
  <2>3. \A j \in 1..(n - 1) : j \in 1..n
    OBVIOUS
  <2> QED
    BY <2>1, <2>2, <2>3 DEF Single
<1>2. Accounted(t, st, n - 1)
  <2> SUFFICES ASSUME NEW d \in Check
               PROVE  /\ t.ledger[d].paid + Cardinality(Owing(st, n - 1, d)) =
                            IF d.gasPrice > 0 THEN UsesIn(t, d) ELSE 0
                      /\ d.safeTxGas = 0 /\ d.gasPrice = 0 => t.ledger[d].failed = 0
    BY DEF Accounted
  <2>1. Cardinality(Owing(st, n, d)) =
          Cardinality(Owing(st, n - 1, d)) + IF st[n].check = d THEN 1 ELSE 0
    BY OwingStep
  <2>2. Cardinality(Owing(st, n - 1, d)) \in Nat /\ s.ledger[d].paid \in Nat
    BY UsesNat, OwingFinite
  <2>3. /\ s.ledger[d].paid + Cardinality(Owing(st, n, d)) =
              IF d.gasPrice > 0 THEN UsesIn(s, d) ELSE 0
        /\ d.safeTxGas = 0 /\ d.gasPrice = 0 => s.ledger[d].failed = 0
    BY DEF Good, Accounted
  <2>4. /\ UsesIn(t, d) = UsesIn(s, d) /\ t.ledger[d].failed = s.ledger[d].failed
        /\ t.ledger[d].paid = s.ledger[d].paid + IF st[n].check = d THEN 1 ELSE 0
    OBVIOUS
  <2>5. t.ledger[d].paid + Cardinality(Owing(st, n - 1, d)) =
          s.ledger[d].paid + Cardinality(Owing(st, n, d))
    BY <2>1, <2>2, <2>4
  <2> QED
    BY <2>3, <2>4, <2>5
<1> QED
  BY <1>1, <1>2 DEF Good
-----------------------------------------------------------------------------
(* The steps of the executor. *)

\* What the type invariant says of the stack.
LEMMA StackFacts ==
    ASSUME TypeOK
    PROVE  /\ Len(stack) \in Nat /\ stack \in Seq(Frame)
           /\ \A j \in 1..Len(stack) : stack[j] \in Frame
           /\ stack # <<>> => Len(stack) \in 1..Len(stack) /\ Len(stack) \in Nat \ {0} /\ Top \in Frame
<1>1. stack \in Seq(Frame)
  BY DEF TypeOK, Frame
<1>2. Len(stack) \in Nat /\ \A j \in 1..Len(stack) : stack[j] \in Frame
  BY <1>1, LenProperties, ElementOfSeq
<1>3. stack # <<>> => Len(stack) \in Nat \ {0}
  BY <1>1, EmptySeq
<1> QED
  BY <1>1, <1>2, <1>3 DEF Top

LEMMA StorageTypes ==
    ASSUME TypeOK
    PROVE  /\ Storage \in StorageType /\ register \in SUBSET Nonce /\ owners \in SUBSET Account
           /\ threshold \in Nat /\ ledger \in Ledger /\ tampered \in BOOLEAN
           /\ approved \in SUBSET (Account \X Check)
           /\ endorsed \in SUBSET (Contract \X Check)
<1>1. Storage \in StorageType
  BY DEF TypeOK
<1> QED
  BY <1>1 DEF Storage, StorageType

\* The stack without its last call.
LEMMA RestFacts ==
    ASSUME TypeOK, stack # <<>>
    PROVE  /\ Rest \in Seq(Frame) /\ Len(Rest) = Len(stack) - 1
           /\ Agree(stack, Rest, Len(stack) - 1)
<1>1. \A j \in 1..(Len(stack) - 1) : stack[j] \in Frame
  BY StackFacts
<1>2. Len(stack) \in Nat \ {0}
  BY StackFacts
<1>3. /\ Rest \in Seq(Frame)
      /\ Len(Rest) = IF 1 <= Len(stack) - 1 THEN (Len(stack) - 1) - 1 + 1 ELSE 0
      /\ \A i \in 1..((Len(stack) - 1) - 1 + 1) : Rest[i] = stack[1 + i - 1]
  BY <1>1, <1>2, SubSeqProperties DEF Rest
<1>4. Agree(stack, Rest, Len(stack) - 1)
  BY <1>2, <1>3 DEF Agree
<1>5. Len(Rest) = Len(stack) - 1
  <2>1. ASSUME NEW m \in Nat \ {0}
        PROVE  (IF 1 <= m - 1 THEN (m - 1) - 1 + 1 ELSE 0) = m - 1
    OBVIOUS
  <2> QED
    BY <1>2, <1>3, <2>1
<1> QED
  BY <1>3, <1>4, <1>5

\* A storage that a revert restores is one of the right type.
LEMMA Restored ==
    ASSUME NEW s \in StorageType, Restore(s)
    PROVE  Storage' = s /\ Storage' \in StorageType
BY DEF Restore, Storage, StorageType

LEMMA ResumableAgree ==
    ASSUME NEW st, NEW tt, NEW n \in Nat, Agree(st, tt, n),
           \A k \in 1..n : Resumable(st, k)
    PROVE  \A k \in 1..n : Resumable(tt, k)
<1> SUFFICES ASSUME NEW k \in 1..n PROVE Resumable(tt, k)
  OBVIOUS
<1>1. k - 1 \in Nat /\ Agree(st, tt, k - 1) /\ tt[k] = st[k]
  BY DEF Agree
<1>2. Resumable(st, k)
  OBVIOUS
<1> QED
  BY <1>1, <1>2, GoodAgree DEF Resumable

\* Whatever ends the innermost call, with a storage good for those outside it.
LEMMA Return ==
    ASSUME IInv, stack # <<>>, stack' = Rest,
           Storage' \in StorageType, Good(Storage', stack, Len(stack) - 1)
    PROVE  IInv'
<1>1. /\ Rest \in Seq(Frame) /\ Len(Rest) = Len(stack) - 1
      /\ Agree(stack, Rest, Len(stack) - 1)
  BY RestFacts DEF IInv
<1>2. Len(stack) - 1 \in Nat
  BY StackFacts DEF IInv
<1>3. TypeOK'
  BY <1>1 DEF TypeOK, Frame
<1>4. Good(Storage', Rest, Len(Rest))
  BY <1>1, <1>2, GoodAgree
<1>5. \A k \in 1..(Len(stack) - 1) : Resumable(stack, k)
  BY <1>2 DEF IInv
<1>6. \A k \in 1..Len(Rest) : Resumable(Rest, k)
  BY <1>1, <1>2, <1>5, ResumableAgree
<1> QED
  BY <1>3, <1>4, <1>6 DEF IInv

LEMMA RevertPreserves ==
    ASSUME IInv, stack # <<>>, RevertCall
    PROVE  IInv'
<1>1. Top.before \in StorageType /\ Len(stack) \in 1..Len(stack)
  BY StackFacts DEF IInv, Frame
<1>2. Storage' = Top.before
  BY <1>1, Restored DEF RevertCall
<1>3. Good(Top.before, stack, Len(stack) - 1)
  BY <1>1 DEF IInv, Resumable, Top
<1> QED
  BY <1>1, <1>2, <1>3, Return DEF RevertCall

\* The call of the innermost check comes back, counted in the ledger; s is
\* the storage of the moment before.
LEMMA ProceedPreserves ==
    ASSUME IInv, stack # <<>>, Top.phase = "inner", Proceed,
           NEW s \in StorageType, Good(s, stack, Len(stack)),
           Storage' \in StorageType, Counts(s, Storage', Top.check)
    PROVE  IInv'
<1> DEFINE n == Len(stack)
<1>1. /\ n \in 1..n /\ n \in Nat \ {0} /\ Top \in Frame /\ stack \in Seq(Frame)
      /\ \A j \in 1..n : stack[j] \in Frame
  BY StackFacts DEF IInv
<1>2. Top.check.gasPrice \in {0, 1}
  BY <1>1, CheckFields DEF Frame
<1>3. CASE Top.check.gasPrice = 0
  <2>1. Good(Storage', stack, n - 1)
    BY <1>1, <1>3, ExecutedFree DEF Top
  <2>2. stack' = Rest
    BY <1>3 DEF Proceed
  <2> QED
    BY <2>1, <2>2, Return
<1>4. CASE Top.check.gasPrice = 1
  <2> DEFINE e == [stack[n] EXCEPT !.phase = "payment"]
  <2>1. stack' = [stack EXCEPT ![n] = e]
    BY <1>4 DEF Proceed
  <2>2. e \in Frame /\ e.phase = "payment" /\ e.check = stack[n].check /\ e.before = stack[n].before
    BY <1>1 DEF Frame
  <2> HIDE DEF e
  <2>3. /\ stack' \in Seq(Frame) /\ Len(stack') = n
        /\ Agree(stack, stack', n - 1) /\ stack'[n] = e
    BY <1>1, <2>1, <2>2, ExceptSeq DEF Agree
  <2>4. TypeOK'
    BY <2>3 DEF TypeOK, Frame
  <2>5. Good(Storage', stack', n)
    BY <1>1, <1>4, <2>2, <2>3, ExecutedPriced DEF Top
  <2>6. \A k \in 1..n : Resumable(stack', k)
    <3>1. \A k \in 1..(n - 1) : Resumable(stack', k)
      <4>1. n - 1 \in Nat /\ \A k \in 1..(n - 1) : Resumable(stack, k)
        BY <1>1 DEF IInv
      <4> QED
        BY <4>1, <2>3, ResumableAgree
    <3>2. Resumable(stack, n)
      BY <1>1 DEF IInv
    <3>3. Resumable(stack', n)
      <4>1. Good(stack[n].before, stack', n - 1)
        BY <1>1, <2>3, <3>2, GoodAgree DEF Resumable
      <4> QED
        BY <4>1, <3>2, <2>2, <2>3 DEF Resumable
    <3> QED
      BY <1>1, <3>1, <3>3
  <2> QED
    BY <2>3, <2>4, <2>5, <2>6 DEF IInv
<1> QED
  BY <1>2, <1>3, <1>4
-----------------------------------------------------------------------------
(* The invariant and what follows from it. *)

LEMMA InitIInv == ASSUME Init PROVE IInv
<1>1. Storage \in StorageType
  <2>1. Cardinality(Founders) \in Nat /\ threshold \in Nat
    BY CheckAssumption, FS_Subset, FS_CardinalityType DEF Init
  <2> QED
    BY <2>1, CheckAssumption DEF Init, Storage, StorageType, Ledger, Unused
<1>2. stack = <<>> /\ Len(stack) = 0
  BY DEF Init
<1>3. TypeOK
  BY <1>1, <1>2 DEF TypeOK
<1>4. Good(Storage, stack, 0)
  <2>1. \A c \in Check : UsesIn(Storage, c) = 0 /\ Storage.ledger[c].paid = 0
                         /\ Storage.ledger[c].failed = 0
    BY DEF Init, Storage, UsesIn, Unused
  <2>2. Storage.register = {}
    BY DEF Init, Storage
  <2>3. \A c : Cardinality(Owing(stack, 0, c)) = 0
    <3> SUFFICES ASSUME NEW c PROVE Cardinality(Owing(stack, 0, c)) = 0
      OBVIOUS
    <3>1. Owing(stack, 0, c) = {}
      BY DEF Owing
    <3> QED
      BY <3>1, FS_EmptySet
  <2>4. Single(Storage, stack, 0)
    BY <2>1, <2>2 DEF Single, Claims
  <2>5. Accounted(Storage, stack, 0)
    BY <2>1, <2>3 DEF Accounted
  <2> QED
    BY <2>4, <2>5 DEF Good
<1> QED
  BY <1>2, <1>3, <1>4 DEF IInv

LEMMA EnterPreserves ==
    ASSUME IInv, NEW sender \in Account, NEW c \in Check, executeCheck(sender, c)
    PROVE  IInv'
<1> DEFINE n == Len(stack)
           e == [check |-> c, phase |-> "inner", before |-> Storage]
<1>1. Storage \in StorageType /\ register \in SUBSET Nonce /\ ledger \in Ledger
      /\ owners \in SUBSET Account /\ threshold \in Nat /\ tampered \in BOOLEAN
  BY StorageTypes DEF IInv
<1>2. n \in Nat /\ stack \in Seq(Frame)
  BY StackFacts DEF IInv
<1>3. e \in Frame /\ e.check = c /\ e.phase = "inner" /\ e.before = Storage
  BY <1>1 DEF Frame
<1>4. stack' = Append(stack, e)
  BY DEF executeCheck
<1> HIDE DEF e
<1>5. /\ stack' \in Seq(Frame) /\ Len(stack') = n + 1
      /\ Agree(stack, stack', n) /\ stack'[n + 1] = e
  BY <1>2, <1>3, <1>4, AppendProperties DEF Agree
<1>6. /\ Storage' \in StorageType
      /\ Storage'.register = Storage.register \cup {c.checkNonce}
      /\ Storage'.ledger = Storage.ledger /\ Storage'.tampered = Storage.tampered
  BY <1>1, CheckFields DEF executeCheck, Registered, Storage, StorageType
<1>7. c.checkNonce \notin Storage.register
  BY DEF executeCheck, MayExecute, checkValidity, Storage
<1>8. TypeOK'
  BY <1>5, <1>6 DEF TypeOK, Frame
<1>9. Good(Storage, stack', n)
  BY <1>2, <1>5, GoodAgree DEF IInv
<1>10. Good(Storage', stack', n + 1)
  <2>1. \A j \in 1..(n + 1) : stack'[j] \in Frame
    BY <1>5, ElementOfSeq
  <2> QED
    BY <1>1, <1>2, <1>3, <1>5, <1>6, <1>7, <1>9, <2>1, Enter
<1>11. \A k \in 1..(n + 1) : Resumable(stack', k)
  <2>1. \A k \in 1..n : Resumable(stack', k)
    BY <1>2, <1>5, ResumableAgree DEF IInv
  <2>2. Resumable(stack', n + 1)
    <3>1. (n + 1) - 1 = n
      BY <1>2
    <3> QED
      BY <1>3, <1>5, <1>7, <1>9, <3>1 DEF Resumable
  <2> QED
    BY <1>2, <2>1, <2>2
<1> QED
  BY <1>5, <1>8, <1>10, <1>11 DEF IInv

\* A step that leaves the stack alone and the register, the ledger and the
\* mark as they are, or leaves a mark.
LEMMA OthersPreserve ==
    ASSUME IInv, UNCHANGED stack, Storage' \in StorageType, ledger' = ledger,
           tampered' = TRUE \/ (register' = register /\ tampered' = tampered)
    PROVE  IInv'
<1>1. TypeOK'
  BY DEF IInv, TypeOK
<1>2. Good(Storage', stack, Len(stack))
  <2>1. Storage'.ledger = Storage.ledger
    BY DEF Storage
  <2>2. Accounted(Storage', stack, Len(stack))
    BY <2>1 DEF IInv, Good, Accounted, UsesIn
  <2>3. CASE tampered' = TRUE
    BY <2>2, <2>3 DEF Good, Storage
  <2>4. CASE register' = register /\ tampered' = tampered
    <3>1. Len(stack) \in Nat
      BY StackFacts DEF IInv
    <3>2. Storage'.register = Storage.register /\ Storage'.tampered = Storage.tampered
      BY <2>4 DEF Storage
    <3> QED
      BY <2>1, <3>1, <3>2, GoodFields DEF IInv
  <2> QED
    BY <2>3, <2>4
<1>3. \A k \in 1..Len(stack) : Resumable(stack, k)
  BY DEF IInv
<1> QED
  BY <1>1, <1>2, <1>3 DEF IInv

\* An owner approves a hash or changes what it answers.
Confirms == endorse \/ \E a \in Account, c \in Check : approveHash(a, c)

LEMMA ConfirmsChange ==
    ASSUME IInv, Confirms
    PROVE  /\ UNCHANGED <<register, owners, threshold, ledger, tampered, stack>>
           /\ Storage' \in StorageType
<1>1. UNCHANGED <<register, owners, threshold, ledger, tampered, stack>>
  BY DEF Confirms, endorse, approveHash
<1>2. /\ approved' \in SUBSET (Account \X Check)
      /\ endorsed' \in SUBSET (Contract \X Check)
  <2>1. /\ approved \in SUBSET (Account \X Check)
        /\ endorsed \in SUBSET (Contract \X Check)
    BY StorageTypes DEF IInv
  <2>2. CASE endorse
    BY <2>1, <2>2, CheckAssumption DEF endorse
  <2>3. CASE \E a \in Account, c \in Check : approveHash(a, c)
    BY <2>1, <2>3 DEF approveHash
  <2> QED
    BY <2>2, <2>3 DEF Confirms
<1> QED
  BY <1>1, <1>2, StorageTypes DEF IInv, Storage, StorageType

LEMMA CallSucceedsPreserves == ASSUME IInv, CallSucceeds PROVE IInv'
<1>1. Storage \in StorageType /\ ledger \in Ledger
  BY StorageTypes DEF IInv
<1>2. Top.check \in Check
  BY StackFacts DEF CallSucceeds, IInv, Frame
<1>3. ledger' = [ledger EXCEPT ![Top.check].succeeded = @ + 1]
  BY DEF CallSucceeds
<1>4. ledger' \in Ledger
  BY <1>1, <1>2, <1>3 DEF Ledger
<1>5. Storage' = [Storage EXCEPT !.ledger = ledger']
  BY DEF CallSucceeds, Storage
<1>6. Storage' \in StorageType
  BY <1>1, <1>4, <1>5 DEF StorageType
<1>7. Counts(Storage, Storage', Top.check)
  <2>1. \A d \in Check :
           /\ ledger'[d].succeeded = IF d = Top.check THEN ledger[d].succeeded + 1 ELSE ledger[d].succeeded
           /\ ledger'[d].failed = ledger[d].failed /\ ledger'[d].paid = ledger[d].paid
    BY <1>1, <1>2, <1>3 DEF Ledger
  <2>2. \A d \in Check : ledger[d].succeeded \in Nat /\ ledger[d].failed \in Nat
    BY <1>1 DEF Ledger
  <2> QED
    BY <2>1, <2>2 DEF Counts, UsesIn, Storage, CallSucceeds
<1>8. stack # <<>> /\ Top.phase = "inner" /\ Proceed
  BY DEF CallSucceeds
<1> QED
  BY <1>1, <1>6, <1>7, <1>8, ProceedPreserves DEF IInv

\* Counting a failure leaves all else in the ledger alone.
LEMMA FailureCounted ==
    ASSUME NEW l \in Ledger, NEW c \in Check
    PROVE  LET m == [l EXCEPT ![c].failed = @ + 1]
           IN  /\ m \in Ledger
               /\ \A d \in Check :
                     /\ m[d].succeeded = l[d].succeeded /\ m[d].paid = l[d].paid
                     /\ m[d].failed = IF d = c THEN l[d].failed + 1 ELSE l[d].failed
BY DEF Ledger

LEMMA CallFailsPreserves == ASSUME IInv, CallFails PROVE IInv'
<1> DEFINE n == Len(stack)
           c == Top.check
           s == Top.before
           mid == [s EXCEPT !.register = @ \cup {c.checkNonce}]
           end == [s EXCEPT !.register = @ \cup {c.checkNonce}, !.ledger[c].failed = @ + 1]
<1>1. stack # <<>> /\ Top.phase = "inner"
  BY DEF CallFails
<1>2. /\ c \in Check /\ s \in StorageType /\ n \in Nat \ {0} /\ n \in 1..n
      /\ \A j \in 1..n : stack[j] \in Frame
  BY <1>1, StackFacts DEF IInv, Frame
<1>3. CASE ~FailureTolerated(c)
  BY <1>1, <1>3, RevertPreserves DEF CallFails
<1>4. CASE FailureTolerated(c)
  <2>1. Restore(end) /\ Proceed
    BY <1>4 DEF CallFails
  <2>2. /\ mid \in StorageType /\ mid.ledger = s.ledger /\ mid.tampered = s.tampered
        /\ mid.register = s.register \cup {c.checkNonce}
    BY <1>2, CheckFields DEF StorageType
  <2> DEFINE l == [s.ledger EXCEPT ![c].failed = @ + 1]
  <2>10. /\ s.ledger \in Ledger /\ l \in Ledger
        /\ \A d \in Check :
             /\ l[d].succeeded = s.ledger[d].succeeded /\ l[d].paid = s.ledger[d].paid
             /\ l[d].failed = IF d = c THEN s.ledger[d].failed + 1 ELSE s.ledger[d].failed
    <3>1. s.ledger \in Ledger
      BY <1>2 DEF StorageType
    <3> HIDE DEF c, s
    <3> QED
      BY <1>2, <3>1, FailureCounted
  <2>11. end = [s EXCEPT !.register = @ \cup {c.checkNonce}, !.ledger = l]
    BY <1>2 DEF StorageType
  <2> HIDE DEF end, l
  <2>3. /\ end \in StorageType /\ end.register = mid.register /\ end.tampered = mid.tampered
        /\ end.ledger = l
    BY <1>2, <2>10, <2>11, CheckFields DEF StorageType
  <2> HIDE DEF mid
  <2>4. Good(mid, stack, n)
    <3>1. (n - 1) + 1 = n /\ n - 1 \in Nat
      BY <1>2
    <3>2. Good(s, stack, n - 1) /\ c.checkNonce \notin s.register
      BY <1>2 DEF IInv, Resumable, Top
    <3> QED
      BY <1>1, <1>2, <2>2, <3>1, <3>2, Enter DEF Top
  <2>5. Counts(mid, end, c)
    <3>2. \A d \in Check :
             /\ end.ledger[d].succeeded = s.ledger[d].succeeded
             /\ end.ledger[d].paid = s.ledger[d].paid
             /\ end.ledger[d].failed = IF d = c THEN s.ledger[d].failed + 1 ELSE s.ledger[d].failed
      BY <2>3, <2>10
    <3>3. \A d \in Check : s.ledger[d].succeeded \in Nat /\ s.ledger[d].failed \in Nat
      BY <1>2, UsesNat
    <3>4. \A d \in Check : d.safeTxGas = 0 /\ d.gasPrice = 0 => d # c
      BY <1>4 DEF FailureTolerated
    <3>5. \A d \in Check : UsesIn(end, d) = UsesIn(mid, d) + IF d = c THEN 1 ELSE 0
      BY <2>2, <3>2, <3>3 DEF UsesIn
    <3>6. \A d \in Check :
             /\ end.ledger[d].paid = mid.ledger[d].paid
             /\ d.safeTxGas = 0 /\ d.gasPrice = 0 => end.ledger[d].failed = mid.ledger[d].failed
      BY <2>2, <3>2, <3>3, <3>4
    <3> QED
      BY <2>3, <3>5, <3>6 DEF Counts
  <2>6. Storage' = end /\ Storage' \in StorageType
    BY <2>1, <2>3, Restored
  <2> QED
    BY <1>1, <2>1, <2>2, <2>4, <2>5, <2>6, ProceedPreserves
<1> QED
  BY <1>3, <1>4

LEMMA PaymentPreserves == ASSUME IInv, PaymentSucceeds PROVE IInv'
<1>1. Storage \in StorageType /\ ledger \in Ledger
  BY StorageTypes DEF IInv
<1>2. /\ Top.check \in Check /\ Len(stack) \in Nat \ {0}
      /\ \A j \in 1..Len(stack) : stack[j] \in Frame
  BY StackFacts DEF PaymentSucceeds, IInv, Frame
<1>3. ledger' = [ledger EXCEPT ![Top.check].paid = @ + 1]
  BY DEF PaymentSucceeds
<1>4. ledger' \in Ledger
  BY <1>1, <1>2, <1>3 DEF Ledger
<1>5. Storage' = [Storage EXCEPT !.ledger = ledger']
  BY DEF PaymentSucceeds, Storage
<1>6. Storage' \in StorageType
  BY <1>1, <1>4, <1>5 DEF StorageType
<1>7. /\ Storage'.register = Storage.register /\ Storage'.tampered = Storage.tampered
      /\ \A d \in Check :
            /\ UsesIn(Storage', d) = UsesIn(Storage, d)
            /\ Storage'.ledger[d].failed = Storage.ledger[d].failed
            /\ Storage'.ledger[d].paid =
                  Storage.ledger[d].paid + IF d = stack[Len(stack)].check THEN 1 ELSE 0
  <2>1. \A d \in Check :
           /\ ledger'[d].paid = IF d = Top.check THEN ledger[d].paid + 1 ELSE ledger[d].paid
           /\ ledger'[d].succeeded = ledger[d].succeeded /\ ledger'[d].failed = ledger[d].failed
    BY <1>1, <1>2, <1>3 DEF Ledger
  <2>2. \A d \in Check : ledger[d].paid \in Nat
    BY <1>1 DEF Ledger
  <2> QED
    BY <2>1, <2>2 DEF PaymentSucceeds, UsesIn, Storage, Top
<1>8. Good(Storage', stack, Len(stack) - 1)
  BY <1>1, <1>2, <1>6, <1>7, Paid DEF PaymentSucceeds, Top, IInv
<1> QED
  BY <1>6, <1>8, Return DEF PaymentSucceeds

LEMMA Inductive == ASSUME IInv, [Next]_vars PROVE IInv'
<1>1. ASSUME NEW sender \in Account, NEW c \in Check, executeCheck(sender, c)
      PROVE  IInv'
  BY <1>1, EnterPreserves
<1>2. CASE CallSucceeds
  BY <1>2, CallSucceedsPreserves
<1>3. CASE CallFails
  BY <1>3, CallFailsPreserves
<1>4. CASE PaymentSucceeds
  BY <1>4, PaymentPreserves
<1>5. CASE PaymentFails
  BY <1>5, RevertPreserves DEF PaymentFails
<1>6. CASE OutOfGas
  BY <1>6, RevertPreserves DEF OutOfGas
<1>7. CASE ChangeWallet
  <2>1. PICK S \in SUBSET Account, q \in 1..Cardinality(Account) : Registry!Enact(S, q)
    BY <1>7 DEF ChangeWallet
  <2>2. owners' \in SUBSET Account /\ threshold' \in Nat
    <3>1. Cardinality(Account) \in Nat
      BY CheckAssumption, FS_CardinalityType
    <3> QED
      BY <2>1, <3>1 DEF Registry!Enact
  <2>3. Storage' \in StorageType
    BY <1>7, <2>2, StorageTypes DEF ChangeWallet, IInv, Storage, StorageType
  <2> QED
    BY <1>7, <2>3, OthersPreserve DEF ChangeWallet
<1>8. CASE DelegateWrites
  <2>1. Storage' \in StorageType
    BY <1>8, StorageTypes DEF DelegateWrites, IInv, Storage, StorageType
  <2>2. UNCHANGED stack /\ ledger' = ledger /\ tampered' = TRUE
    BY <1>8 DEF DelegateWrites
  <2> QED
    BY <2>1, <2>2, OthersPreserve
<1>9. CASE Confirms
  BY <1>9, ConfirmsChange, OthersPreserve
<1>10. CASE UNCHANGED vars
  BY <1>10 DEF vars, IInv, TypeOK, Storage
<1> QED
  BY <1>1, <1>2, <1>3, <1>4, <1>5, <1>6, <1>7, <1>8, <1>9, <1>10 DEF Next, Confirms

\* The inductive invariant: a revert restores a storage that is as good as
\* the current one, at any depth.
THEOREM Invariance == Spec => []IInv
<1>1. Init => IInv
  BY InitIInv
<1>2. IInv /\ [Next]_vars => IInv'
  BY Inductive
<1> QED
  BY <1>1, <1>2, PTL DEF Spec
\* TypeOK alone: whatever delegatecalled code and reverts do to the storage
\* of executeCheck, register, owners and ledger keep their types.
THEOREM TypeCorrect == Spec => []TypeOK
<1>1. IInv => TypeOK
  BY DEF IInv
<1> QED
  BY <1>1, Invariance, PTL

\* NonceUsedOnce: no nonce is good for two executions, whatever the nesting
\* of calls and the pattern of reverts (executeCheck's C200 and its write of
\* the register before the call).
THEOREM SingleUse == Spec => []NonceUsedOnce
<1>1. IInv => NonceUsedOnce
  BY DEF IInv, Good, Single, NonceUsedOnce, Uses, UsesIn, Storage
<1> QED
  BY <1>1, Invariance, PTL

\* RegisterExact: between transactions the register holds the nonces of the
\* executed checks and no others.
THEOREM Register == Spec => []RegisterExact
<1>1. IInv => RegisterExact
  <2> SUFFICES ASSUME IInv, stack = <<>>, ~tampered
               PROVE  register = {c.checkNonce : c \in {d \in Check : Uses(d) > 0}}
    BY DEF RegisterExact
  <2>1. Single(Storage, stack, 0)
    BY DEF IInv, Good, Storage
  <2>2. \A m \in Nonce : m \in register <=> \E c \in Check : c.checkNonce = m /\ Uses(c) > 0
    BY <2>1 DEF Single, Claims, Storage, Uses, UsesIn
  <2>3. register \subseteq Nonce /\ \A c \in Check : c.checkNonce \in Nonce
    BY StorageTypes, CheckFields DEF IInv
  <2> QED
    BY <2>2, <2>3
<1> QED
  BY <1>1, Invariance, PTL

\* UsesSettled: between transactions every execution of a check with a price
\* is paid once and no other is, and no check that must succeed was used up
\* by a failure (GS013, handlePayment).
THEOREM Settlement == Spec => []UsesSettled
<1>1. IInv => UsesSettled
  <2> SUFFICES ASSUME IInv, stack = <<>>, NEW c \in Check
               PROVE  /\ ledger[c].paid = IF c.gasPrice > 0 THEN Uses(c) ELSE 0
                      /\ c.safeTxGas = 0 /\ c.gasPrice = 0 => ledger[c].failed = 0
    BY DEF UsesSettled
  <2>1. Cardinality(Owing(stack, 0, c)) = 0
    <3>1. Owing(stack, 0, c) = {}
      BY DEF Owing
    <3> QED
      BY <3>1, FS_EmptySet
  <2>2. /\ ledger[c].paid + Cardinality(Owing(stack, 0, c)) =
              IF c.gasPrice > 0 THEN Uses(c) ELSE 0
        /\ c.safeTxGas = 0 /\ c.gasPrice = 0 => ledger[c].failed = 0
    BY DEF IInv, Good, Accounted, Storage, Uses, UsesIn
  <2>3. ledger[c].paid \in Nat
    BY UsesNat, StorageTypes DEF IInv, Storage
  <2> QED
    BY <2>1, <2>2, <2>3
<1> QED
  BY <1>1, Invariance, PTL

-----------------------------------------------------------------------------
(* What a call in progress has kept of the storage it returns to. *)

Later(s, t) ==
    ~t.tampered =>
        /\ ~s.tampered
        /\ s.register \subseteq t.register
        /\ \A c \in Check : UsesIn(s, c) > 0 => UsesIn(t, c) > 0

\* Nothing is forgotten: every storage is later than those further out.
Grown ==
    \A k \in 1..Len(stack) :
        /\ Later(stack[k].before, Storage)
        /\ \A j \in 1..k : Later(stack[j].before, stack[k].before)

LEMMA LaterTransitive ==
    ASSUME NEW s, NEW t, NEW u, Later(s, t), Later(t, u)
    PROVE  Later(s, u)
BY DEF Later

\* Nor does a step forget what the outermost call found.
OutermostKept == stack # <<>> => Later(stack[1].before, Storage')

\* A step that pops a call, or keeps the calls, moves the storage on.
LEMMA GrownStep ==
    ASSUME IInv, Grown, NEW m \in 0..Len(stack), NEW s, Later(s, Storage'),
           s = Storage \/ \E i \in 1..Len(stack) : i >= m /\ s = stack[i].before,
           Len(stack') = m, \A k \in 1..m : stack'[k].before = stack[k].before
    PROVE  Grown' /\ OutermostKept
<1>1. Len(stack) \in Nat
  BY StackFacts DEF IInv
<1>2. ASSUME NEW k \in 1..m PROVE Later(stack[k].before, Storage')
  <2>1. Later(stack[k].before, s)
    BY <1>1, <1>2 DEF Grown
  <2> QED
    BY <2>1, LaterTransitive
<1>3. \A k \in 1..m : \A j \in 1..k : Later(stack[j].before, stack[k].before)
  BY <1>1 DEF Grown
<1>4. \A k \in 1..m : \A j \in 1..k : j \in 1..m
  BY <1>1
<1>5. OutermostKept
  <2> SUFFICES ASSUME stack # <<>> PROVE Later(stack[1].before, Storage')
    BY DEF OutermostKept
  <2>1. 1 \in 1..Len(stack) /\ \A i \in 1..Len(stack) : 1 \in 1..i
    BY StackFacts DEF IInv
  <2>2. Later(stack[1].before, s)
    BY <2>1 DEF Grown
  <2> QED
    BY <2>2, LaterTransitive
<1> QED
  BY <1>2, <1>3, <1>4, <1>5 DEF Grown
LEMMA LaterReflexive == ASSUME NEW s PROVE Later(s, s)
BY DEF Later

\* Proceed keeps or drops the innermost call and touches no other storage.
LEMMA ProceedShape ==
    ASSUME IInv, stack # <<>>, Proceed
    PROVE  \E m \in {Len(stack) - 1, Len(stack)} :
             Len(stack') = m /\ \A k \in 1..m : stack'[k].before = stack[k].before
<1> DEFINE n == Len(stack)
<1>1. /\ n \in 1..n /\ n \in Nat \ {0} /\ stack \in Seq(Frame)
      /\ \A j \in 1..n : stack[j] \in Frame
  BY StackFacts DEF IInv
<1>2. CASE stack' = Rest
  <2>1. Len(stack') = n - 1 /\ \A k \in 1..(n - 1) : stack'[k].before = stack[k].before
    BY <1>2, RestFacts DEF IInv, Agree
  <2> QED
    BY <2>1
<1>3. CASE stack' = [stack EXCEPT ![n].phase = "payment"]
  <2> DEFINE e == [stack[n] EXCEPT !.phase = "payment"]
  <2>1. e \in Frame /\ e.before = stack[n].before /\ stack' = [stack EXCEPT ![n] = e]
    BY <1>1, <1>3 DEF Frame
  <2> HIDE DEF e
  <2>2. Len(stack') = n /\ \A k \in 1..n : stack'[k] = IF k = n THEN e ELSE stack[k]
    BY <1>1, <2>1, ExceptSeq
  <2>3. \A k \in 1..n : stack'[k].before = stack[k].before
    BY <2>1, <2>2
  <2> QED
    BY <2>2, <2>3
<1> QED
  BY <1>2, <1>3 DEF Proceed

LEMMA RevertGrows ==
    ASSUME IInv, Grown, stack # <<>>, RevertCall
    PROVE  Grown' /\ OutermostKept
<1>1. /\ Top.before \in StorageType /\ Len(stack) \in 1..Len(stack)
      /\ Len(stack) - 1 \in 0..Len(stack) /\ Top = stack[Len(stack)]
  BY StackFacts DEF IInv, Frame, Top
<1>2. Storage' = Top.before
  BY <1>1, Restored DEF RevertCall
<1>3. Later(Top.before, Storage')
  BY <1>2, LaterReflexive
<1>4. /\ Len(stack') = Len(stack) - 1
      /\ \A k \in 1..(Len(stack) - 1) : stack'[k].before = stack[k].before
  BY RestFacts DEF RevertCall, IInv, Agree
<1>5. \E i \in 1..Len(stack) : i >= Len(stack) - 1 /\ Top.before = stack[i].before
  BY <1>1
<1> QED
  BY <1>1, <1>3, <1>4, <1>5, GrownStep

LEMMA EnterGrows ==
    ASSUME IInv, Grown, NEW sender \in Account, NEW c \in Check, executeCheck(sender, c)
    PROVE  Grown' /\ OutermostKept
<1> DEFINE n == Len(stack)
           e == [check |-> c, phase |-> "inner", before |-> Storage]
<1>1. n \in Nat /\ stack \in Seq(Frame) /\ Storage \in StorageType
  BY StackFacts DEF IInv, TypeOK
<1>2. e \in Frame /\ e.before = Storage /\ stack' = Append(stack, e)
  BY <1>1 DEF Frame, executeCheck
<1> HIDE DEF e
<1>3. Len(stack') = n + 1 /\ stack'[n + 1] = e /\ \A k \in 1..n : stack'[k] = stack[k]
  BY <1>1, <1>2, AppendProperties
<1>4. Later(Storage, Storage')
  BY DEF executeCheck, Registered, Later, UsesIn, Storage
<1>5. ASSUME NEW k \in 1..(n + 1) PROVE Later(stack'[k].before, Storage)
  <2>1. CASE k \in 1..n
    BY <1>3, <2>1 DEF Grown
  <2>2. CASE k = n + 1
    BY <1>2, <1>3, <2>2, LaterReflexive
  <2> QED
    BY <1>1, <2>1, <2>2
<1>6. \A k \in 1..(n + 1) : Later(stack'[k].before, Storage')
  BY <1>4, <1>5, LaterTransitive
<1>7. ASSUME NEW k \in 1..(n + 1), NEW j \in 1..k
      PROVE  Later(stack'[j].before, stack'[k].before)
  <2>1. CASE k \in 1..n
    <3>1. j \in 1..n
      BY <1>1, <2>1
    <3> QED
      BY <1>3, <2>1, <3>1 DEF Grown
  <2>2. CASE k = n + 1
    <3>1. stack'[k].before = Storage /\ j \in 1..(n + 1)
      BY <1>1, <1>2, <1>3, <2>2
    <3> QED
      BY <1>5, <3>1
  <2> QED
    BY <1>1, <2>1, <2>2
<1>8. OutermostKept
  <2> SUFFICES ASSUME stack # <<>> PROVE Later(stack[1].before, Storage')
    BY DEF OutermostKept
  <2>1. 1 \in 1..n /\ 1 \in 1..(n + 1)
    BY StackFacts DEF IInv
  <2> QED
    BY <1>3, <1>6, <2>1
<1> QED
  BY <1>3, <1>6, <1>7, <1>8 DEF Grown

\* A call that comes back has used up its check and forgotten nothing.
LEMMA CallSucceedsGrows == ASSUME IInv, Grown, CallSucceeds PROVE Grown' /\ OutermostKept
<1>1. ledger \in Ledger /\ Top.check \in Check /\ Len(stack) \in Nat
  BY StorageTypes, StackFacts DEF CallSucceeds, IInv, Frame
<1>2. \A d \in Check : ledger[d].succeeded \in Nat /\ ledger[d].failed \in Nat
  BY <1>1 DEF Ledger
<1>3. \A d \in Check :
         /\ ledger'[d].succeeded = IF d = Top.check THEN ledger[d].succeeded + 1 ELSE ledger[d].succeeded
         /\ ledger'[d].failed = ledger[d].failed
  BY <1>1 DEF CallSucceeds, Ledger
<1>4. \A d \in Check : UsesIn(Storage, d) > 0 => UsesIn(Storage', d) > 0
  BY <1>2, <1>3 DEF UsesIn, Storage
<1>5. Later(Storage, Storage')
  BY <1>4 DEF Later, Storage, CallSucceeds
<1>6. PICK m \in {Len(stack) - 1, Len(stack)} :
         Len(stack') = m /\ \A k \in 1..m : stack'[k].before = stack[k].before
  BY ProceedShape DEF CallSucceeds
<1>7. m \in 0..Len(stack)
  BY StackFacts DEF CallSucceeds, IInv
<1> QED
  BY <1>5, <1>6, <1>7, GrownStep

LEMMA PaymentGrows == ASSUME IInv, Grown, PaymentSucceeds PROVE Grown' /\ OutermostKept
<1>1. ledger \in Ledger /\ Top.check \in Check /\ Len(stack) \in Nat \ {0}
  BY StorageTypes, StackFacts DEF PaymentSucceeds, IInv, Frame
<1>2. \A d \in Check :
         ledger'[d].succeeded = ledger[d].succeeded /\ ledger'[d].failed = ledger[d].failed
  BY <1>1 DEF PaymentSucceeds, Ledger
<1>3. \A d \in Check : UsesIn(Storage', d) = UsesIn(Storage, d)
  BY <1>2 DEF UsesIn, Storage
<1>4. Later(Storage, Storage')
  BY <1>3 DEF Later, Storage, PaymentSucceeds
<1>5. /\ Len(stack') = Len(stack) - 1 /\ Len(stack) - 1 \in 0..Len(stack)
      /\ \A k \in 1..(Len(stack) - 1) : stack'[k].before = stack[k].before
  BY <1>1, RestFacts DEF PaymentSucceeds, IInv, Agree
<1> QED
  BY <1>4, <1>5, GrownStep
LEMMA CallFailsGrows == ASSUME IInv, Grown, CallFails PROVE Grown' /\ OutermostKept
<1> DEFINE n == Len(stack)
           c == Top.check
           s == Top.before
<1>1. stack # <<>> /\ Top = stack[n]
  BY DEF CallFails, Top
<1>2. c \in Check /\ s \in StorageType /\ n \in Nat \ {0} /\ n \in 1..n
  BY <1>1, StackFacts DEF IInv, Frame
<1>3. CASE ~FailureTolerated(c)
  BY <1>1, <1>3, RevertGrows DEF CallFails
<1>4. CASE FailureTolerated(c)
  <2>1. /\ register' = s.register \cup {c.checkNonce} /\ tampered' = s.tampered
        /\ ledger' = [s EXCEPT !.register = @ \cup {c.checkNonce}, !.ledger[c].failed = @ + 1].ledger
        /\ Proceed
    BY <1>2, <1>4 DEF CallFails, Restore, StorageType
  <2>2. ledger' = [s.ledger EXCEPT ![c].failed = @ + 1] /\ s.ledger \in Ledger
    BY <1>2, <2>1 DEF StorageType
  <2>3. \A d \in Check :
           /\ ledger'[d].succeeded = s.ledger[d].succeeded
           /\ ledger'[d].failed = IF d = c THEN s.ledger[d].failed + 1 ELSE s.ledger[d].failed
    <3> DEFINE l == [s.ledger EXCEPT ![c].failed = @ + 1]
    <3>1. \A d \in Check :
             /\ l[d].succeeded = s.ledger[d].succeeded
             /\ l[d].failed = IF d = c THEN s.ledger[d].failed + 1 ELSE s.ledger[d].failed
      <4>1. s.ledger \in Ledger
        BY <2>2
      <4> HIDE DEF c, s
      <4>2. /\ l \in Ledger
            /\ \A d \in Check :
                 /\ l[d].succeeded = s.ledger[d].succeeded /\ l[d].paid = s.ledger[d].paid
                 /\ l[d].failed = IF d = c THEN s.ledger[d].failed + 1 ELSE s.ledger[d].failed
        BY <1>2, <4>1, FailureCounted
      <4> QED
        BY <4>2
    <3> HIDE DEF l
    <3> QED
      BY <2>2, <3>1 DEF l
  <2>4. \A d \in Check : s.ledger[d].succeeded \in Nat /\ s.ledger[d].failed \in Nat
    BY <1>2, UsesNat
  <2>5. \A d \in Check : UsesIn(s, d) > 0 => UsesIn(Storage', d) > 0
    BY <2>3, <2>4 DEF UsesIn, Storage
  <2>6. Later(s, Storage')
    BY <2>1, <2>5 DEF Later, Storage
  <2>7. PICK m \in {n - 1, n} :
           Len(stack') = m /\ \A k \in 1..m : stack'[k].before = stack[k].before
    BY <1>1, <2>1, ProceedShape
  <2>8. m \in 0..n /\ \E i \in 1..n : i >= m /\ s = stack[i].before
    BY <1>1, <1>2
  <2> QED
    BY <2>6, <2>7, <2>8, GrownStep
<1> QED
  BY <1>3, <1>4

LEMMA OutermostMoves ==
    ASSUME IInv, Grown, Later(Storage, Storage')
    PROVE  OutermostKept
<1> SUFFICES ASSUME stack # <<>> PROVE Later(stack[1].before, Storage')
  BY DEF OutermostKept
<1>1. 1 \in 1..Len(stack)
  BY StackFacts DEF IInv
<1> QED
  BY <1>1, LaterTransitive DEF Grown

LEMMA GrownInductive == ASSUME IInv, Grown, [Next]_vars PROVE Grown' /\ OutermostKept
<1>1. ASSUME NEW sender \in Account, NEW c \in Check, executeCheck(sender, c)
      PROVE  Grown' /\ OutermostKept
  BY <1>1, EnterGrows
<1>2. CASE CallSucceeds
  BY <1>2, CallSucceedsGrows
<1>3. CASE CallFails
  BY <1>3, CallFailsGrows
<1>4. CASE PaymentSucceeds
  BY <1>4, PaymentGrows
<1>5. CASE PaymentFails
  BY <1>5, RevertGrows DEF PaymentFails
<1>6. CASE OutOfGas
  BY <1>6, RevertGrows DEF OutOfGas
<1>7. CASE ChangeWallet
  <2>1. Grown'
    BY <1>7 DEF ChangeWallet, Grown, Later, Storage, UsesIn
  <2>2. Later(Storage, Storage')
    BY <1>7 DEF ChangeWallet, Later, Storage, UsesIn
  <2> QED
    BY <2>1, <2>2, OutermostMoves
<1>8. CASE DelegateWrites
  <2>1. Grown'
    BY <1>8 DEF DelegateWrites, Grown, Later, Storage, UsesIn
  <2>2. Later(Storage, Storage')
    BY <1>8 DEF DelegateWrites, Later, Storage, UsesIn
  <2> QED
    BY <2>1, <2>2, OutermostMoves
<1>9. CASE Confirms \/ UNCHANGED vars
  <2> UNCHANGED <<register, ledger, tampered, stack>>
    BY <1>9, ConfirmsChange DEF vars
  <2>1. Grown'
    BY DEF Grown, Later, Storage, UsesIn
  <2>2. Later(Storage, Storage')
    BY DEF Later, Storage, UsesIn
  <2> QED
    BY <2>1, <2>2, OutermostMoves
<1> QED
  BY <1>1, <1>2, <1>3, <1>4, <1>5, <1>6, <1>7, <1>8, <1>9 DEF Next, Confirms

THEOREM Growth == Spec => []Grown
<1>1. Init => Grown
  <2> SUFFICES ASSUME Init PROVE Grown
    OBVIOUS
  <2>1. Len(stack) = 0
    BY DEF Init
  <2> QED
    BY <2>1 DEF Grown
<1>2. IInv /\ Grown /\ [Next]_vars => Grown'
  BY GrownInductive
<1> QED
  BY <1>1, <1>2, Invariance, PTL DEF Spec

-----------------------------------------------------------------------------
(* Checks do not stand in each other's way. *)

\* Only executeCheck writes a nonce that was not in the register.
LEMMA RegisterGains ==
    ASSUME IInv, Grown, Next, ~tampered, ~tampered',
           NEW m \in register', m \notin register
    PROVE  \E sender \in Account, c \in Check : executeCheck(sender, c) /\ m = c.checkNonce
<1> SUFFICES ASSUME ~(\E sender \in Account, c \in Check : executeCheck(sender, c))
             PROVE  FALSE
  BY DEF executeCheck, Registered
<1>1. CASE CallSucceeds
  BY <1>1 DEF CallSucceeds
<1>2. CASE PaymentSucceeds
  BY <1>2 DEF PaymentSucceeds
<1>3. CASE ChangeWallet
  BY <1>3 DEF ChangeWallet
<1>4. CASE DelegateWrites
  BY <1>4 DEF DelegateWrites
<1>5. ASSUME stack # <<>>
      PROVE  /\ Top = stack[Len(stack)] /\ Len(stack) \in 1..Len(stack)
             /\ Top.before \in StorageType /\ Top.before.register \subseteq register
  <2>1. /\ Top = stack[Len(stack)] /\ Len(stack) \in 1..Len(stack)
        /\ Top.before \in StorageType
    BY <1>5, StackFacts DEF IInv, Frame, Top
  <2>2. Later(Top.before, Storage)
    BY <2>1 DEF Grown
  <2> QED
    BY <2>1, <2>2 DEF Later, Storage
<1>6. CASE stack # <<>> /\ RevertCall
  BY <1>5, <1>6 DEF RevertCall, Restore
<1>7. CASE CallFails
  <2>1. register' \subseteq Top.before.register \cup {Top.check.checkNonce}
    BY <1>5, <1>7 DEF CallFails, RevertCall, Restore, StorageType
  <2>2. Top.check.checkNonce \in register
    <3>1. Single(Storage, stack, Len(stack))
      BY DEF IInv, Good, Storage
    <3>2. Top.check \in Check /\ Top.check.checkNonce \in Nonce
      BY <1>7, StackFacts, CheckFields DEF CallFails, IInv, Frame
    <3>3. Claims(Storage, stack, Len(stack), Top.check.checkNonce)
      BY <1>5, <1>7 DEF Claims, CallFails
    <3> QED
      BY <3>1, <3>2, <3>3 DEF Single, Storage
  <2> QED
    BY <1>5, <1>7, <2>1, <2>2 DEF CallFails
<1>8. CASE Confirms
  BY <1>8, ConfirmsChange
<1> QED
  BY <1>1, <1>2, <1>3, <1>4, <1>6, <1>7, <1>8 DEF Next, PaymentFails, OutOfGas, Confirms

\* With the owners and the threshold as they are, signatures that sufficed
\* suffice until an owner takes one back.
LEMMA StillConfirmed ==
    ASSUME IInv, NEW c \in Check, checkSignatures(c), ~Withdrawn(c),
           owners' = owners, threshold' = threshold
    PROVE  checkSignatures(c)'
<1> DEFINE A == {o \in owners : <<o, c>> \in Confirmed}
           B == {o \in owners : <<o, c>> \in Confirmed'}
<1>1. IsFiniteSet(B) /\ A \subseteq B
  BY StorageTypes, CheckAssumption, FS_Subset DEF IInv, Withdrawn
<1>2. IsFiniteSet(A) /\ Cardinality(A) <= Cardinality(B)
  BY <1>1, FS_Subset
<1>3. Cardinality(A) \in Nat /\ Cardinality(B) \in Nat /\ threshold \in Nat
  BY <1>1, <1>2, FS_CardinalityType, StorageTypes DEF IInv
<1>4. Cardinality(A) >= threshold /\ threshold > 0
  BY DEF checkSignatures
<1>5. Cardinality(B) >= threshold' /\ threshold' > 0
  BY <1>2, <1>3, <1>4
<1>6. checkSignatures(c)' <=> (threshold' > 0 /\ Cardinality(B) >= threshold')
  BY DEF checkSignatures
<1> QED
  BY <1>5, <1>6

\* OrderIrrelevant: a check that could be executed stops being valid only by
\* its own execution, by a change of the wallet or by one of its owners
\* taking back its confirmation (README: "order irrelevant").
THEOREM AnyOrder == Spec => OrderIrrelevant
<1> DEFINE Stands(c) ==
      checkValidity(c) /\ ~checkValidity(c)' =>
          \/ <<owners, threshold>>' # <<owners, threshold>>
          \/ Withdrawn(c)
          \/ tampered \/ tampered'
          \/ stack' # <<>> /\ stack'[Len(stack')].check.checkNonce = c.checkNonce
<1>1. ASSUME IInv, Grown, [Next]_vars PROVE [\A c \in Check : Stands(c)]_vars
  <2> SUFFICES ASSUME Next, NEW c \in Check, checkValidity(c), ~checkValidity(c)',
                      owners' = owners, threshold' = threshold, ~Withdrawn(c),
                      ~tampered, ~tampered'
               PROVE  stack' # <<>> /\ stack'[Len(stack')].check.checkNonce = c.checkNonce
    BY <1>1
  <2>1. c.checkNonce \in register' /\ c.checkNonce \notin register
    BY <1>1, StillConfirmed DEF checkValidity
  <2>2. PICK sender \in Account, d \in Check :
           executeCheck(sender, d) /\ c.checkNonce = d.checkNonce
    BY <1>1, <2>1, RegisterGains
  <2> DEFINE e == [check |-> d, phase |-> "inner", before |-> Storage]
  <2>3. stack' = Append(stack, e) /\ e.check = d
    BY <2>2 DEF executeCheck
  <2>4. e \in Frame /\ stack \in Seq(Frame)
    BY <1>1, StackFacts DEF IInv, TypeOK, Frame
  <2> HIDE DEF e
  <2>5. stack' # <<>> /\ stack'[Len(stack')] = e
    BY <2>3, <2>4, AppendProperties
  <2> QED
    BY <2>2, <2>3, <2>5
<1> QED
  BY <1>1, Invariance, Growth, PTL DEF Spec, OrderIrrelevant
-----------------------------------------------------------------------------
(* The executor implements the book of checks. *)

Users(s, n) == {c \in Check : c.checkNonce = n /\ UsesIn(s, c) > 0}
One(users) == IF users = {} THEN Blank ELSE CHOOSE c \in users : TRUE

LEMMA StubIs ==
    ASSUME NEW s
    PROVE  StubOf(s) = [n \in Nonce |-> One(Users(s, n))]
BY DEF StubOf, One, Users, UsesIn

\* What is cashed between two storages that nobody has tampered with.
LEMMA Cashed ==
    ASSUME NEW s, NEW t, NEW st, Later(s, t), ~t.tampered, Single(t, st, 0)
    PROVE  LET batch == {c \in Check : UsesIn(t, c) > 0 /\ ~(UsesIn(s, c) > 0)}
           IN  /\ \A c \in batch : StubOf(s)[c.checkNonce] = Blank
               /\ \A c, d \in batch : c.checkNonce = d.checkNonce => c = d
               /\ StubOf(t) = [n \in Nonce |->
                     IF \E c \in batch : c.checkNonce = n
                     THEN CHOOSE c \in batch : c.checkNonce = n
                     ELSE StubOf(s)[n]]
<1> DEFINE batch == {c \in Check : UsesIn(t, c) > 0 /\ ~(UsesIn(s, c) > 0)}
<1>1. \A c, d \in Check :
         c.checkNonce = d.checkNonce /\ UsesIn(t, c) > 0 /\ UsesIn(t, d) > 0 => c = d
  BY DEF Single
<1>2. \A c \in Check : UsesIn(s, c) > 0 => UsesIn(t, c) > 0
  BY DEF Later
<1>3. ASSUME NEW c \in batch PROVE StubOf(s)[c.checkNonce] = Blank
  <2>1. Users(s, c.checkNonce) = {}
    BY <1>1, <1>2 DEF Users
  <2>2. c.checkNonce \in Nonce
    BY CheckFields
  <2> QED
    BY <2>1, <2>2, StubIs DEF One
<1>4. ASSUME NEW n \in Nonce
      PROVE  StubOf(t)[n] = IF \E c \in batch : c.checkNonce = n
                            THEN CHOOSE c \in batch : c.checkNonce = n
                            ELSE StubOf(s)[n]
  <2>1. CASE \E c \in batch : c.checkNonce = n
    <3>1. PICK c \in batch : c.checkNonce = n
      BY <2>1
    <3>2. Users(t, n) = {c}
      BY <1>1, <3>1 DEF Users
    <3>3. StubOf(t)[n] = c
      BY <3>2, StubIs DEF One
    <3>4. \A d \in batch : d.checkNonce = n => d = c
      BY <1>1, <3>1
    <3>5. (CHOOSE d \in batch : d.checkNonce = n) = c
      BY <3>1, <3>4
    <3> QED
      BY <2>1, <3>3, <3>5
  <2>2. CASE ~\E c \in batch : c.checkNonce = n
    <3>1. Users(t, n) = Users(s, n)
      BY <1>2, <2>2 DEF Users
    <3> QED
      BY <2>2, <3>1, StubIs
  <2> QED
    BY <2>1, <2>2
<1>5. StubOf(t) = [n \in Nonce |-> StubOf(t)[n]]
  BY StubIs
<1>6. StubOf(t) = [n \in Nonce |-> IF \E c \in batch : c.checkNonce = n
                                   THEN CHOOSE c \in batch : c.checkNonce = n
                                   ELSE StubOf(s)[n]]
  BY <1>4, <1>5
<1> QED
  BY <1>1, <1>3, <1>6

LEMMA StubType == ASSUME NEW s PROVE StubOf(s) \in [Nonce -> Check \cup {Blank}]
<1>1. \A n \in Nonce : One(Users(s, n)) \in Check \cup {Blank}
  BY DEF One, Users
<1> QED
  BY <1>1, StubIs

\* Between two boundaries the outermost call's storage stands for the state.
LEMMA SettledStays ==
    ASSUME IInv, [Next]_vars, stack = <<>> \/ stack' # <<>>
    PROVE  /\ Settled'.ledger = Settled.ledger /\ Settled'.tampered = Settled.tampered
<1>1. CASE stack = <<>>
  <2>1. ASSUME NEW sender \in Account, NEW c \in Check, executeCheck(sender, c)
        PROVE  stack' # <<>> /\ stack'[1].before = Storage
    BY <1>1, <2>1 DEF executeCheck
  <2>2. CASE ChangeWallet
    BY <1>1, <2>2 DEF ChangeWallet, Settled, Storage
  <2>3. CASE Confirms \/ UNCHANGED vars
    BY <1>1, <2>3, ConfirmsChange DEF vars, Settled, Storage
  <2>4. \/ \E sender \in Account, c \in Check : executeCheck(sender, c)
        \/ ChangeWallet \/ Confirms \/ UNCHANGED vars
    BY <1>1 DEF Next, CallSucceeds, CallFails, PaymentSucceeds, PaymentFails, OutOfGas,
                DelegateWrites, Confirms
  <2>5. Settled = Storage
    BY <1>1 DEF Settled
  <2> QED
    BY <2>1, <2>2, <2>3, <2>4, <2>5 DEF Settled
<1>2. CASE stack # <<>> /\ stack' # <<>>
  <2> SUFFICES stack'[1].before = stack[1].before
    BY <1>2 DEF Settled
  <2>1. Len(stack) \in Nat \ {0} /\ 1 \in 1..Len(stack) /\ stack \in Seq(Frame)
    BY <1>2, StackFacts DEF IInv
  <2>2. ASSUME NEW sender \in Account, NEW c \in Check, executeCheck(sender, c)
        PROVE  stack'[1] = stack[1]
    <3> DEFINE e == [check |-> c, phase |-> "inner", before |-> Storage]
    <3>1. e \in Frame /\ stack' = Append(stack, e)
      BY <2>2 DEF executeCheck, Frame, IInv, TypeOK
    <3> HIDE DEF e
    <3> QED
      BY <2>1, <3>1, AppendProperties
  <2>3. CASE Proceed
    <3>1. PICK m \in {Len(stack) - 1, Len(stack)} :
             Len(stack') = m /\ \A k \in 1..m : stack'[k].before = stack[k].before
      BY <1>2, <2>3, ProceedShape
    <3>2. stack' \in Seq(Frame)
      BY Inductive, StackFacts DEF IInv, TypeOK, Frame
    <3>3. m >= 1
      BY <1>2, <2>1, <3>1, <3>2, EmptySeq
    <3> QED
      BY <2>1, <3>1, <3>3
  <2>4. CASE stack' = Rest
    <3>1. Len(stack') = Len(stack) - 1 /\ Agree(stack, stack', Len(stack) - 1)
      BY <1>2, <2>4, RestFacts DEF IInv
    <3>2. stack' \in Seq(Frame)
      BY <1>2, <2>4, RestFacts DEF IInv
    <3>3. Len(stack) - 1 >= 1
      BY <1>2, <2>1, <3>1, <3>2, EmptySeq
    <3> QED
      BY <2>1, <3>1, <3>3 DEF Agree
  <2>5. \/ \E sender \in Account, c \in Check : executeCheck(sender, c)
        \/ Proceed \/ stack' = Rest \/ UNCHANGED stack
    BY ConfirmsChange DEF Next, CallSucceeds, CallFails, PaymentSucceeds, PaymentFails,
           OutOfGas, RevertCall, ChangeWallet, DelegateWrites, Confirms, vars
  <2> QED
    BY <2>2, <2>3, <2>4, <2>5
<1> QED
  BY <1>1, <1>2
\* The end of a transaction cashes a batch of checks, or leaves a mark.
LEMMA TransactionCashes ==
    ASSUME IInv, IInv', OutermostKept, stack # <<>>, stack' = <<>>
    PROVE  Book!Next
<1>1. Settled = stack[1].before /\ Settled' = Storage'
  BY DEF Settled
<1>2. stack[1].before.tampered \in BOOLEAN /\ tampered' \in BOOLEAN
  <2>1. 1 \in 1..Len(stack)
    BY StackFacts DEF IInv
  <2>2. stack[1].before \in StorageType
    BY <2>1, StackFacts DEF IInv, Frame
  <2> QED
    BY <2>2 DEF IInv, TypeOK, StorageType, Storage
<1>3. CASE tampered' = TRUE
  <2>1. (~Settled.tampered)' = FALSE
    BY <1>1, <1>3 DEF Storage
  <2>2. StubOf(Settled)' \in [Nonce -> Check \cup {Blank}]
    BY StubType
  <2> QED
    BY <2>1, <2>2 DEF Book!Next, Book!Tamper
<1>4. CASE tampered' = FALSE
  <2> DEFINE s == stack[1].before
             t == Storage'
             batch == {c \in Check : UsesIn(t, c) > 0 /\ ~(UsesIn(s, c) > 0)}
  <2>1. Later(s, t) /\ ~t.tampered
    BY <1>4 DEF OutermostKept, Storage
  <2>2. ~s.tampered
    BY <2>1 DEF Later
  <2>3. Len(stack') = 0
    OBVIOUS
  <2>4. Single(t, stack', 0)
    BY <2>1, <2>3 DEF IInv, Good
  <2>5. /\ \A c \in batch : StubOf(s)[c.checkNonce] = Blank
        /\ \A c, d \in batch : c.checkNonce = d.checkNonce => c = d
        /\ StubOf(t) = [n \in Nonce |->
              IF \E c \in batch : c.checkNonce = n
              THEN CHOOSE c \in batch : c.checkNonce = n
              ELSE StubOf(s)[n]]
    BY <2>1, <2>4, Cashed
  <2>6. StubOf(Settled) = StubOf(s) /\ StubOf(Settled)' = StubOf(t)
    BY <1>1
  <2>7. (~Settled.tampered) = TRUE /\ (~Settled.tampered)' = TRUE
    BY <1>1, <1>2, <2>1, <2>2
  <2>8. batch \in SUBSET Check
    OBVIOUS
  <2> HIDE DEF batch
  <2>9. Book!Cash(batch)
    BY <2>5, <2>6, <2>7 DEF Book!Cash
  <2> QED
    BY <2>7, <2>8, <2>9 DEF Book!Next
<1> QED
  BY <1>2, <1>3, <1>4

\* BookSpec: seen between transactions the executor is a book of single-use
\* checks, for every set of checks and every depth of nested calls.
THEOREM ImplementsBook == Spec => BookSpec
<1>1. Init => Book!Init
  <2> SUFFICES ASSUME Init PROVE Book!Init
    OBVIOUS
  <2>1. Settled = Storage /\ Storage.tampered = FALSE
    BY DEF Init, Settled, Storage
  <2>2. \A n \in Nonce : Users(Storage, n) = {}
    BY DEF Init, Storage, Users, UsesIn, Unused
  <2>3. StubOf(Storage) = [n \in Nonce |-> Blank]
    BY <2>2, StubIs DEF One
  <2> QED
    BY <2>1, <2>3 DEF Book!Init
<1>2. IInv /\ Grown /\ IInv' /\ [Next]_vars => [Book!Next]_(Book!vars)
  <2> SUFFICES ASSUME IInv, Grown, IInv', [Next]_vars
               PROVE  [Book!Next]_(Book!vars)
    OBVIOUS
  <2>1. CASE stack = <<>> \/ stack' # <<>>
    <3>1. Settled'.ledger = Settled.ledger /\ Settled'.tampered = Settled.tampered
      BY <2>1, SettledStays
    <3>2. StubOf(Settled)' = StubOf(Settled)
      BY <3>1 DEF StubOf
    <3> QED
      BY <3>1, <3>2 DEF Book!vars
  <2>2. CASE stack # <<>> /\ stack' = <<>>
    BY <2>2, GrownInductive, TransactionCashes
  <2> QED
    BY <2>1, <2>2
<1> QED
  BY <1>1, <1>2, Invariance, Growth, PTL DEF Spec, BookSpec, Book!Spec
=============================================================================
