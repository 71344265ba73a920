--------------------------- MODULE GnosisSafeProofs ---------------------------
(***************************************************************************)
(* One execution per nonce, payment and guards of a Safe, for every set of *)
(* owners, modules and transactions and every depth of nested calls.       *)
(*                                                                         *)
(* As in CheckExecutorProofs, the invariant speaks of a storage s under n  *)
(* calls in progress: the storage now under all of them, and the storage   *)
(* each of them returns to under those outside it.                         *)
(*                                                                         *)
(* The last part holds what is proved about the gas and the payment of a   *)
(* transaction (GasAccounting), which has variables of its own.            *)
(***************************************************************************)
EXTENDS GnosisSafe, GasAccounting, FiniteSetTheorems, SequenceTheorems, TLAPS

\* A transaction of the owners whose call, or whose payment, is not over.
Pending(f) == f.kind = "owners" /\ f.phase \in {"inner", "payment"}

\* What the ledger says of a nonce that has run, and of one to be paid.
Done(l) ==
    /\ Len(l.runs) = 1
    /\ l.paid = IF l.runs[1].tx.gasPrice > 0 THEN 1 ELSE 0
    /\ l.runs[1].tx.gasPrice = 0 /\ l.runs[1].tx.safeTxGas = 0 => l.runs[1].ok

Awaiting(l, t) == Len(l.runs) = 1 /\ l.runs[1].tx = t /\ l.paid = 0 /\ t.gasPrice = 1

\* The nonces below the current one have run, or belong to one call in
\* progress; those above have not.
GoodLedger(s, st, n) ==
    /\ \A m \in Nonce : m >= s.nonce => s.ledger[m] = Blank
    /\ \A m \in Nonce :
          m < s.nonce => Done(s.ledger[m]) \/ \E j \in 1..n : Pending(st[j]) /\ st[j].nonce = m
    /\ \A j \in 1..n : st[j].kind = "owners" =>
          /\ st[j].nonce < s.nonce
          /\ st[j].phase = "inner" => s.ledger[st[j].nonce] = Blank
          /\ st[j].phase = "payment" => Awaiting(s.ledger[st[j].nonce], st[j].tx)
    /\ \A i, j \in 1..n :
          st[i].kind = "owners" /\ st[j].kind = "owners" /\ st[i].nonce = st[j].nonce => i = j

Recorded(f) == f.guard = "debug" /\ f.nonce # 0

\* The guards hold what the calls in progress have put there.
GoodGuards(s, st, n) ==
    /\ s.guards.active <=> \E j \in 1..n : st[j].guard = "reentrancy"
    /\ \A i, j \in 1..n : st[i].guard = "reentrancy" /\ st[j].guard = "reentrancy" => i = j
    /\ \A e \in Tx \X Nonce :
          e \in s.guards.txNonces <=> \E j \in 1..n : Recorded(st[j]) /\ e = <<st[j].tx, st[j].nonce>>

Good(s, st, n) == GoodLedger(s, st, n) /\ GoodGuards(s, st, n)

\* What a call has found and made of it.
Entry(f) ==
    /\ f.kind = "owners" =>
          /\ f.nonce = f.before.nonce /\ f.nonce \in Nonce /\ f.tx \in Tx
          /\ f.guard = "reentrancy" => ~f.before.guards.active
          /\ f.inside = [f.before EXCEPT !.nonce = f.nonce + 1,
                                         !.guards = Entered(f.guard, f.before.guards, f.tx, f.nonce)]
    /\ f.kind = "module" => f.phase = "inner" /\ f.guard = "none" /\ f.inside = f.before

Resumable(st, k) == Entry(st[k]) /\ Good(st[k].before, st, k - 1)

IInv ==
    /\ TypeOK
    /\ Good(Storage, stack, Len(stack))
    /\ \A k \in 1..Len(stack) : Resumable(stack, k)

Agree(st, tt, n) == \A j \in 1..n : tt[j] = st[j]

\* Two stacks that differ in no more than the phase of the n-th call.
Alike(st, tt, n) ==
    /\ Agree(st, tt, n - 1)
    /\ tt[n].kind = st[n].kind /\ tt[n].nonce = st[n].nonce /\ tt[n].tx = st[n].tx
    /\ tt[n].guard = st[n].guard /\ tt[n].before = st[n].before /\ tt[n].inside = st[n].inside

-----------------------------------------------------------------------------
(* Facts about storages and stacks, apart from any state. *)

LEMMA NonceRange == \A n \in Nonce : n \in Nat /\ n \in 0..MaxNonce /\ n + 1 \in 0..MaxNonce
BY SafeAssumption DEF Nonce

LEMMA GoodAgree ==
    ASSUME NEW s, NEW st, NEW tt, NEW n \in Nat, Agree(st, tt, n), Good(s, st, n)
    PROVE  Good(s, tt, n)
<1>1. GoodLedger(s, tt, n)
  BY DEF Good, GoodLedger, Agree, Pending
<1>2. GoodGuards(s, tt, n)
  BY DEF Good, GoodGuards, Agree, Recorded
<1> QED
  BY <1>1, <1>2 DEF Good

\* What a storage is good for depends on its nonce, ledger and guards.
LEMMA GoodFields ==
    ASSUME NEW s, NEW t, NEW st, NEW n \in Nat, Good(s, st, n),
           t.nonce = s.nonce, t.ledger = s.ledger, t.guards = s.guards
    PROVE  Good(t, st, n)
BY DEF Good, GoodLedger, GoodGuards

LEMMA FrameFields ==
    ASSUME NEW f \in FrameType
    PROVE  /\ f.kind \in {"owners", "module"} /\ f.nonce \in 0..MaxNonce /\ f.nonce \in Nat
           /\ f.guard \in Guard /\ f.before \in StorageType /\ f.inside \in StorageType
           /\ f.phase \in {"inner", "payment", "after"} /\ f.tx \in TxFields
BY SafeAssumption DEF FrameType

LEMMA StorageFields ==
    ASSUME NEW s \in StorageType
    PROVE  /\ s.nonce \in Nat /\ s.nonce \in 0..MaxNonce
           /\ s.guards.active \in BOOLEAN /\ s.guards.txNonces \in SUBSET (Tx \X Nonce)
           /\ \A n \in Nonce : s.ledger[n].runs \in Seq([tx : Tx, ok : BOOLEAN])
                               /\ s.ledger[n].paid \in Nat
<1>1. s.nonce \in 0..MaxNonce /\ s.guards \in [active : BOOLEAN, txNonces : SUBSET (Tx \X Nonce)]
  BY DEF StorageType
<1>2. s.ledger \in [Nonce -> [runs : Seq([tx : Tx, ok : BOOLEAN]), paid : Nat]]
  BY DEF StorageType
<1>3. s.nonce \in Nat
  BY <1>1, SafeAssumption
<1> QED
  BY <1>1, <1>2, <1>3

\* execTransaction takes the next nonce for the call that begins.
LEMMA LedgerEnter ==
    ASSUME NEW s \in StorageType, NEW t \in StorageType,
           NEW n \in Nat, NEW st, \A j \in 1..(n + 1) : st[j] \in FrameType,
           GoodLedger(s, st, n), s.nonce \in Nonce,
           st[n + 1].kind = "owners", st[n + 1].phase = "inner", st[n + 1].nonce = s.nonce,
           t.nonce = s.nonce + 1, t.ledger = s.ledger
    PROVE  GoodLedger(t, st, n + 1)
<1>1. n + 1 \in 1..(n + 1) /\ \A j \in 1..n : j \in 1..(n + 1)
  OBVIOUS
<1>2. \A j \in 1..(n + 1) : st[j].nonce \in Nat
  BY FrameFields
<1>3. s.nonce \in Nat /\ \A m \in Nonce : m \in Nat
  BY StorageFields, NonceRange
<1>4. \A m \in Nonce : m >= t.nonce => t.ledger[m] = Blank
  BY <1>3 DEF GoodLedger
<1>5. ASSUME NEW m \in Nonce, m < t.nonce
      PROVE  Done(t.ledger[m]) \/ \E j \in 1..(n + 1) : Pending(st[j]) /\ st[j].nonce = m
  <2>1. CASE m < s.nonce
    BY <1>1, <2>1 DEF GoodLedger
  <2>2. CASE m = s.nonce
    BY <1>1, <2>2 DEF Pending
  <2> QED
    BY <1>3, <1>5, <2>1, <2>2
<1>6. ASSUME NEW j \in 1..(n + 1), st[j].kind = "owners"
      PROVE  /\ st[j].nonce < t.nonce
             /\ st[j].phase = "inner" => t.ledger[st[j].nonce] = Blank
             /\ st[j].phase = "payment" => Awaiting(t.ledger[st[j].nonce], st[j].tx)
  <2>1. CASE j \in 1..n
    BY <1>2, <1>3, <1>6, <2>1 DEF GoodLedger
  <2>2. CASE j = n + 1
    BY <1>3, <2>2 DEF GoodLedger
  <2> QED
    BY <2>1, <2>2
<1>7. ASSUME NEW i \in 1..(n + 1), NEW j \in 1..(n + 1),
             st[i].kind = "owners", st[j].kind = "owners", st[i].nonce = st[j].nonce
      PROVE  i = j
  <2>1. \A k \in 1..n : st[k].kind = "owners" => st[k].nonce # s.nonce
    BY <1>1, <1>2, <1>3 DEF GoodLedger
  <2> QED
    BY <1>7, <2>1 DEF GoodLedger
<1> QED
  BY <1>4, <1>5, <1>6, <1>7 DEF GoodLedger
\* The innermost transaction moves on: what the ledger now says of its
\* nonce agrees with its phase.
LEMMA LedgerMoves ==
    ASSUME NEW s \in StorageType, NEW t,
           NEW n \in Nat \ {0}, NEW st, \A j \in 1..n : st[j] \in FrameType,
           NEW tt, Alike(st, tt, n), st[n].kind = "owners", st[n].nonce \in Nonce,
           GoodLedger(s, st, n), t.nonce = s.nonce,
           \A m \in Nonce : m # st[n].nonce => t.ledger[m] = s.ledger[m],
           \/ tt[n].phase = "after" /\ Done(t.ledger[st[n].nonce])
           \/ tt[n].phase = "payment" /\ Awaiting(t.ledger[st[n].nonce], st[n].tx)
    PROVE  GoodLedger(t, tt, n)
<1> DEFINE f == st[n]
<1>1. n \in 1..n /\ f \in FrameType /\ \A j \in 1..n : j = n \/ j \in 1..(n - 1)
  OBVIOUS
<1>2. \A j \in 1..n : st[j].nonce \in Nat /\ tt[j].kind = st[j].kind /\ tt[j].nonce = st[j].nonce
  BY <1>1, FrameFields DEF Alike, Agree
<1>3. s.nonce \in Nat /\ (\A m \in Nonce : m \in Nat) /\ f.nonce < s.nonce
  BY <1>1, StorageFields, NonceRange DEF GoodLedger
<1>4. ASSUME NEW m \in Nonce, m < t.nonce
      PROVE  Done(t.ledger[m]) \/ \E j \in 1..n : Pending(tt[j]) /\ tt[j].nonce = m
  <2>1. CASE m = f.nonce
    BY <1>1, <1>2, <2>1 DEF Pending
  <2>2. CASE m # f.nonce
    <3>1. t.ledger[m] = s.ledger[m] /\ m < s.nonce
      BY <1>4, <2>2
    <3>2. CASE Done(s.ledger[m])
      BY <3>1, <3>2
    <3>3. CASE \E j \in 1..n : Pending(st[j]) /\ st[j].nonce = m
      <4>1. PICK j \in 1..n : Pending(st[j]) /\ st[j].nonce = m
        BY <3>3
      <4>2. tt[j] = st[j]
        BY <1>1, <2>2, <4>1 DEF Alike, Agree
      <4> QED
        BY <4>1, <4>2
    <3> QED
      BY <3>1, <3>2, <3>3 DEF GoodLedger
  <2> QED
    BY <2>1, <2>2
<1>5. ASSUME NEW j \in 1..n, tt[j].kind = "owners"
      PROVE  /\ tt[j].nonce < t.nonce
             /\ tt[j].phase = "inner" => t.ledger[tt[j].nonce] = Blank
             /\ tt[j].phase = "payment" => Awaiting(t.ledger[tt[j].nonce], tt[j].tx)
  <2>1. CASE j = n
    BY <1>2, <1>3, <2>1 DEF Alike
  <2>2. CASE j \in 1..(n - 1)
    <3>1. tt[j] = st[j] /\ st[j].nonce # f.nonce /\ st[j].nonce < s.nonce
      BY <1>1, <1>5, <2>2 DEF Alike, Agree, GoodLedger
    <3>2. st[j].nonce \in Nonce
      BY <1>2, <1>3, <3>1, StorageFields, SafeAssumption DEF Nonce
    <3>3. t.ledger[st[j].nonce] = s.ledger[st[j].nonce]
      BY <3>1, <3>2
    <3> QED
      BY <1>5, <3>1, <3>3 DEF GoodLedger
  <2> QED
    BY <1>1, <2>1, <2>2
<1>6. \A m \in Nonce : m >= t.nonce => t.ledger[m] = Blank
  BY <1>3 DEF GoodLedger
<1>7. \A i, j \in 1..n :
         tt[i].kind = "owners" /\ tt[j].kind = "owners" /\ tt[i].nonce = tt[j].nonce => i = j
  BY <1>2 DEF GoodLedger
<1> QED
  BY <1>4, <1>5, <1>6, <1>7 DEF GoodLedger

\* A call that is not, or no longer, waiting for anything may leave or enter.
LEMMA LedgerPop ==
    ASSUME NEW s, NEW n \in Nat \ {0}, NEW st, ~Pending(st[n]), GoodLedger(s, st, n)
    PROVE  GoodLedger(s, st, n - 1)
<1>1. \A j \in 1..n : Pending(st[j]) => j \in 1..(n - 1)
  OBVIOUS
<1>2. \A j \in 1..(n - 1) : j \in 1..n
  OBVIOUS
<1>3. \A m \in Nonce :
         m < s.nonce => Done(s.ledger[m]) \/ \E j \in 1..(n - 1) : Pending(st[j]) /\ st[j].nonce = m
  BY <1>1 DEF GoodLedger
<1> QED
  BY <1>2, <1>3 DEF GoodLedger

LEMMA LedgerPush ==
    ASSUME NEW s, NEW n \in Nat \ {0}, NEW st, st[n].kind # "owners", GoodLedger(s, st, n - 1)
    PROVE  GoodLedger(s, st, n)
<1>1. \A j \in 1..n : st[j].kind = "owners" => j \in 1..(n - 1)
  OBVIOUS
<1>2. \A j \in 1..(n - 1) : j \in 1..n
  OBVIOUS
<1>3. \A m \in Nonce :
         m < s.nonce => Done(s.ledger[m]) \/ \E j \in 1..n : Pending(st[j]) /\ st[j].nonce = m
  BY <1>2 DEF GoodLedger
<1> QED
  BY <1>1, <1>3 DEF GoodLedger

\* A call with no guard leaves the guards to the others.
LEMMA GuardsUnguarded ==
    ASSUME NEW s, NEW n \in Nat \ {0}, NEW st, st[n].guard \notin {"reentrancy", "debug"}
    PROVE  GoodGuards(s, st, n) <=> GoodGuards(s, st, n - 1)
<1>1. \A j \in 1..n : st[j].guard \in {"reentrancy", "debug"} => j \in 1..(n - 1)
  OBVIOUS
<1>2. \A j \in 1..(n - 1) : j \in 1..n
  OBVIOUS
<1> QED
  BY <1>1, <1>2 DEF GoodGuards, Recorded

LEMMA GuardsAlike ==
    ASSUME NEW s, NEW t, NEW n \in Nat \ {0}, NEW st, NEW tt, Alike(st, tt, n),
           GoodGuards(s, st, n), t.guards = s.guards
    PROVE  GoodGuards(t, tt, n)
<1>1. \A j \in 1..n : /\ tt[j].guard = st[j].guard /\ tt[j].tx = st[j].tx
                      /\ tt[j].nonce = st[j].nonce
  BY DEF Alike, Agree
<1> QED
  BY <1>1 DEF GoodGuards, Recorded

\* checkTransaction: the guard puts in what the call that begins claims.
LEMMA GuardsEnter ==
    ASSUME NEW s \in StorageType, NEW t,
           NEW n \in Nat, NEW st, \A j \in 1..(n + 1) : st[j] \in FrameType,
           GoodGuards(s, st, n), st[n + 1].nonce \in Nonce, st[n + 1].tx \in Tx,
           st[n + 1].guard = "reentrancy" => ~s.guards.active,
           t.guards = Entered(st[n + 1].guard, s.guards, st[n + 1].tx, st[n + 1].nonce)
    PROVE  GoodGuards(t, st, n + 1)
<1> DEFINE f == st[n + 1]
<1>1. /\ n + 1 \in 1..(n + 1) /\ (n + 1) - 1 = n /\ n + 1 \in Nat \ {0}
      /\ \A j \in 1..n : j \in 1..(n + 1) /\ j # n + 1
      /\ \A j \in 1..(n + 1) : j = n + 1 \/ j \in 1..n
  OBVIOUS
<1>2. f.guard \in Guard
  BY <1>1, FrameFields
<1>3. s.guards \in [active : BOOLEAN, txNonces : SUBSET (Tx \X Nonce)]
  BY DEF StorageType
<1>4. CASE f.guard \in {"none", "noDelegatecall"}
  <2>1. t.guards = s.guards /\ f.guard \notin {"reentrancy", "debug"}
    BY <1>4 DEF Entered, Raise, Record
  <2>2. GoodGuards(t, st, n)
    BY <2>1 DEF GoodGuards
  <2> QED
    BY <1>1, <2>1, <2>2, GuardsUnguarded
<1>5. CASE f.guard = "reentrancy"
  <2>1. t.guards.active = TRUE /\ t.guards.txNonces = s.guards.txNonces
    BY <1>3, <1>5 DEF Entered, Raise, Record
  <2>2. \A j \in 1..n : st[j].guard # "reentrancy"
    BY <1>5 DEF GoodGuards
  <2>3. \A i, j \in 1..(n + 1) : st[i].guard = "reentrancy" /\ st[j].guard = "reentrancy" => i = j
    BY <1>1, <2>2
  <2>4. ~Recorded(f)
    BY <1>5 DEF Recorded
  <2>5. \A e \in Tx \X Nonce : e \in t.guards.txNonces <=>
           \E j \in 1..(n + 1) : Recorded(st[j]) /\ e = <<st[j].tx, st[j].nonce>>
    BY <1>1, <2>1, <2>4 DEF GoodGuards
  <2> QED
    BY <1>1, <1>5, <2>1, <2>3, <2>5 DEF GoodGuards
<1>6. CASE f.guard = "debug"
  <2>1. t.guards.active = s.guards.active
    BY <1>3, <1>6 DEF Entered, Raise, Record
  <2>2. t.guards.txNonces = s.guards.txNonces \cup (IF Recorded(f) THEN {<<f.tx, f.nonce>>} ELSE {})
    BY <1>3, <1>6 DEF Entered, Record, Recorded
  <2>3. \A e \in Tx \X Nonce : e \in t.guards.txNonces <=>
           \E j \in 1..(n + 1) : Recorded(st[j]) /\ e = <<st[j].tx, st[j].nonce>>
    BY <1>1, <2>2 DEF GoodGuards
  <2>4. \A j \in 1..(n + 1) : st[j].guard = "reentrancy" => j \in 1..n
    BY <1>1, <1>6
  <2> QED
    BY <1>1, <2>1, <2>3, <2>4 DEF GoodGuards
<1> QED
  BY <1>2, <1>4, <1>5, <1>6 DEF Guard

\* checkAfterExecution: it takes out the same and nothing else.
LEMMA GuardsLeave ==
    ASSUME NEW s \in StorageType, NEW t,
           NEW n \in Nat \ {0}, NEW st, \A j \in 1..n : st[j] \in FrameType,
           GoodGuards(s, st, n), st[n].kind = "owners", GoodLedger(s, st, n),
           \A j \in 1..n : st[j].kind # "owners" => st[j].guard = "none",
           t.guards = Left(st[n].guard, s.guards, st[n].tx, st[n].nonce)
    PROVE  GoodGuards(t, st, n - 1)
<1> DEFINE f == st[n]
<1>1. /\ n \in 1..n /\ \A j \in 1..(n - 1) : j \in 1..n /\ j # n
      /\ \A j \in 1..n : j = n \/ j \in 1..(n - 1)
  OBVIOUS
<1>2. f.guard \in Guard
  BY <1>1, FrameFields
<1>3. s.guards \in [active : BOOLEAN, txNonces : SUBSET (Tx \X Nonce)]
  BY DEF StorageType
<1>4. CASE f.guard \in {"none", "noDelegatecall"}
  <2>1. t.guards = s.guards /\ f.guard \notin {"reentrancy", "debug"}
    BY <1>4 DEF Left, Lower, Erase
  <2>2. GoodGuards(t, st, n)
    BY <2>1 DEF GoodGuards
  <2> QED
    BY <2>1, <2>2, GuardsUnguarded
<1>5. CASE f.guard = "reentrancy"
  <2>1. t.guards.active = FALSE /\ t.guards.txNonces = s.guards.txNonces
    BY <1>3, <1>5 DEF Left, Lower, Erase
  <2>2. \A j \in 1..(n - 1) : st[j].guard # "reentrancy"
    BY <1>1, <1>5 DEF GoodGuards
  <2>3. ~Recorded(f)
    BY <1>5 DEF Recorded
  <2>4. \A e \in Tx \X Nonce : e \in t.guards.txNonces <=>
           \E j \in 1..(n - 1) : Recorded(st[j]) /\ e = <<st[j].tx, st[j].nonce>>
    BY <1>1, <2>1, <2>3 DEF GoodGuards
  <2> QED
    BY <2>1, <2>2, <2>4 DEF GoodGuards
<1>6. CASE f.guard = "debug"
  <2>1. t.guards.active = s.guards.active /\ t.guards.txNonces = s.guards.txNonces \ {<<f.tx, f.nonce>>}
    BY <1>3, <1>6 DEF Left, Lower, Erase
  <2>2. \A j \in 1..(n - 1) : Recorded(st[j]) => st[j].nonce # f.nonce
    <3>1. \A j \in 1..(n - 1) : Recorded(st[j]) => st[j].kind = "owners"
      BY <1>1 DEF Recorded
    <3> QED
      BY <1>1, <3>1 DEF GoodLedger
  <2>3. \A e \in Tx \X Nonce : e \in t.guards.txNonces <=>
           \E j \in 1..(n - 1) : Recorded(st[j]) /\ e = <<st[j].tx, st[j].nonce>>
    BY <1>1, <2>1, <2>2 DEF GoodGuards
  <2>4. \A j \in 1..n : st[j].guard = "reentrancy" => j \in 1..(n - 1)
    BY <1>1, <1>6
  <2> QED
    BY <1>1, <2>1, <2>3, <2>4 DEF GoodGuards
<1> QED
  BY <1>2, <1>4, <1>5, <1>6 DEF Guard
-----------------------------------------------------------------------------
(* The steps of the Safe. *)

LedgerType == [Nonce -> [runs : Seq([tx : Tx, ok : BOOLEAN]), paid : Nat]]

LEMMA StackFacts ==
    ASSUME TypeOK
    PROVE  /\ Len(stack) \in Nat /\ stack \in Seq(FrameType)
           /\ \A j \in 1..Len(stack) : stack[j] \in FrameType
           /\ stack # <<>> => /\ Len(stack) \in 1..Len(stack) /\ Len(stack) \in Nat \ {0}
                              /\ Top \in FrameType /\ Top = stack[Len(stack)]
<1>1. stack \in Seq(FrameType)
  BY DEF TypeOK
<1>2. Len(stack) \in Nat /\ \A j \in 1..Len(stack) : stack[j] \in FrameType
  BY <1>1, LenProperties, ElementOfSeq
<1>3. stack # <<>> => Len(stack) \in Nat \ {0}
  BY <1>1, EmptySeq
<1> QED
  BY <1>1, <1>2, <1>3 DEF Top

LEMMA StorageTypes ==
    ASSUME TypeOK
    PROVE  /\ Storage \in StorageType /\ owners \in SUBSET Account /\ threshold \in Nat
           /\ nonce \in 0..MaxNonce /\ nonce \in Nat /\ modules \in SUBSET Module /\ guard \in Guard
           /\ guards \in [active : BOOLEAN, txNonces : SUBSET (Tx \X Nonce)]
           /\ ledger \in LedgerType
<1>1. Storage \in StorageType
  BY DEF TypeOK
<1> QED
  <2>1. /\ owners \in SUBSET Account /\ threshold \in Nat
        /\ nonce \in 0..MaxNonce /\ modules \in SUBSET Module /\ guard \in Guard
        /\ guards \in [active : BOOLEAN, txNonces : SUBSET (Tx \X Nonce)]
        /\ ledger \in LedgerType
    BY <1>1 DEF Storage, StorageType, LedgerType
  <2>2. nonce \in Nat
    BY <2>1, SafeAssumption
  <2> QED
    BY <1>1, <2>1, <2>2

LEMMA RestFacts ==
    ASSUME TypeOK, stack # <<>>
    PROVE  /\ Rest \in Seq(FrameType) /\ Len(Rest) = Len(stack) - 1
           /\ Agree(stack, Rest, Len(stack) - 1)
<1>1. \A j \in 1..(Len(stack) - 1) : stack[j] \in FrameType
  BY StackFacts
<1>2. Len(stack) \in Nat \ {0}
  BY StackFacts
<1>3. /\ Rest \in Seq(FrameType)
      /\ Len(Rest) = IF 1 <= Len(stack) - 1 THEN (Len(stack) - 1) - 1 + 1 ELSE 0
      /\ \A i \in 1..((Len(stack) - 1) - 1 + 1) : Rest[i] = stack[1 + i - 1]
  BY <1>1, <1>2, SubSeqProperties DEF Rest
<1>4. Agree(stack, Rest, Len(stack) - 1)
  BY <1>2, <1>3 DEF Agree
<1>5. Len(Rest) = Len(stack) - 1
  <2>1. ASSUME NEW m \in Nat \ {0}
        PROVE  (IF 1 <= m - 1 THEN (m - 1) - 1 + 1 ELSE 0) = m - 1
    OBVIOUS
  <2> QED
    BY <1>2, <1>3, <2>1
<1> QED
  BY <1>3, <1>4, <1>5

LEMMA Restored ==
    ASSUME NEW s \in StorageType, Restore(s)
    PROVE  Storage' = s /\ Storage' \in StorageType
BY DEF Restore, Storage, StorageType

LEMMA ResumableAgree ==
    ASSUME NEW st, NEW tt, NEW n \in Nat, Agree(st, tt, n),
           \A k \in 1..n : Resumable(st, k)
    PROVE  \A k \in 1..n : Resumable(tt, k)
<1> SUFFICES ASSUME NEW k \in 1..n PROVE Resumable(tt, k)
  OBVIOUS
<1>1. k - 1 \in Nat /\ Agree(st, tt, k - 1) /\ tt[k] = st[k]
  BY DEF Agree
<1>2. Resumable(st, k)
  OBVIOUS
<1> QED
  BY <1>1, <1>2, GoodAgree DEF Resumable

\* A call begins and leaves a storage good for all those in progress.
LEMMA Begin ==
    ASSUME IInv, NEW e \in FrameType, Entry(e), e.before = Storage, stack' = Append(stack, e),
           Storage' \in StorageType, Good(Storage', stack', Len(stack) + 1)
    PROVE  IInv'
<1> DEFINE n == Len(stack)
<1>1. n \in Nat /\ stack \in Seq(FrameType)
  BY StackFacts DEF IInv
<1>2. /\ stack' \in Seq(FrameType) /\ Len(stack') = n + 1
      /\ Agree(stack, stack', n) /\ stack'[n + 1] = e
  BY <1>1, AppendProperties DEF Agree
<1>3. TypeOK'
  BY <1>2 DEF TypeOK
<1>4. \A k \in 1..n : Resumable(stack', k)
  BY <1>1, <1>2, ResumableAgree DEF IInv
<1>5. Resumable(stack', n + 1)
  <2>1. Good(Storage, stack', n) /\ (n + 1) - 1 = n
    BY <1>1, <1>2, GoodAgree DEF IInv
  <2> QED
    BY <1>2, <2>1 DEF Resumable
<1> QED
  BY <1>1, <1>2, <1>3, <1>4, <1>5 DEF IInv

\* The innermost call goes on to another phase.
LEMMA MoveOn ==
    ASSUME IInv, stack # <<>>, Top.kind = "owners",
           NEW p \in {"payment", "after"}, stack' = [stack EXCEPT ![Len(stack)].phase = p],
           NEW s \in StorageType, Good(s, stack, Len(stack)), Storage' \in StorageType,
           Storage'.nonce = s.nonce, Storage'.guards = s.guards,
           \A m \in Nonce : m # Top.nonce => Storage'.ledger[m] = s.ledger[m],
           \/ p = "after" /\ Done(Storage'.ledger[Top.nonce])
           \/ p = "payment" /\ Awaiting(Storage'.ledger[Top.nonce], Top.tx)
    PROVE  IInv'
<1> DEFINE n == Len(stack)
           e == [Top EXCEPT !.phase = p]
<1>1. /\ n \in 1..n /\ n \in Nat \ {0} /\ Top \in FrameType /\ stack \in Seq(FrameType)
      /\ Top = stack[n] /\ \A j \in 1..n : stack[j] \in FrameType
  BY StackFacts DEF IInv
<1>2. /\ e \in FrameType /\ e.phase = p /\ e.kind = Top.kind /\ e.nonce = Top.nonce
      /\ e.tx = Top.tx /\ e.guard = Top.guard /\ e.before = Top.before /\ e.inside = Top.inside
  BY <1>1 DEF FrameType
<1>3. stack' = [stack EXCEPT ![n] = e]
  BY <1>1
<1> HIDE DEF e
<1>4. /\ stack' \in Seq(FrameType) /\ Len(stack') = n
      /\ Agree(stack, stack', n - 1) /\ stack'[n] = e
  BY <1>1, <1>2, <1>3, ExceptSeq DEF Agree
<1>5. Alike(stack, stack', n)
  BY <1>1, <1>2, <1>4 DEF Alike
<1>6. TypeOK'
  BY <1>4 DEF TypeOK
<1>7. Entry(Top) /\ Good(Top.before, stack, n - 1)
  BY <1>1 DEF IInv, Resumable
<1>8. Good(Storage', stack', n)
  <2>1. Top.nonce \in Nonce
    BY <1>7 DEF Entry
  <2>2. GoodLedger(Storage', stack', n)
    <3>1. GoodLedger(s, stack, n) /\ stack[n].kind = "owners" /\ stack[n].nonce \in Nonce
      BY <1>1, <2>1 DEF Good
    <3>2. \/ stack'[n].phase = "after" /\ Done(Storage'.ledger[stack[n].nonce])
          \/ stack'[n].phase = "payment" /\ Awaiting(Storage'.ledger[stack[n].nonce], stack[n].tx)
      BY <1>1, <1>2, <1>4
    <3>3. \A m \in Nonce : m # stack[n].nonce => Storage'.ledger[m] = s.ledger[m]
      BY <1>1
    <3>4. n \in Nat \ {0} /\ \A j \in 1..n : stack[j] \in FrameType
      BY <1>1
    <3> QED
      BY <1>5, <3>1, <3>2, <3>3, <3>4, LedgerMoves
  <2>3. GoodGuards(Storage', stack', n)
    <3>1. GoodGuards(s, stack, n) /\ n \in Nat \ {0}
      BY <1>1 DEF Good
    <3> QED
      BY <1>5, <3>1, GuardsAlike
  <2> QED
    BY <2>2, <2>3 DEF Good
<1>9. \A k \in 1..n : Resumable(stack', k)
  <2>1. \A k \in 1..(n - 1) : Resumable(stack', k)
    <3>1. n - 1 \in Nat /\ \A k \in 1..(n - 1) : Resumable(stack, k)
      BY <1>1 DEF IInv
    <3> QED
      BY <3>1, <1>4, ResumableAgree
  <2>2. Resumable(stack', n)
    <3>1. Good(Top.before, stack', n - 1)
      BY <1>1, <1>4, <1>7, GoodAgree
    <3>2. Entry(e)
      BY <1>2, <1>7 DEF Entry
    <3> QED
      BY <1>2, <1>4, <3>1, <3>2 DEF Resumable
  <2>3. \A k \in 1..n : k = n \/ k \in 1..(n - 1)
    BY <1>1
  <2> QED
    BY <2>1, <2>2, <2>3
<1> QED
  BY <1>4, <1>6, <1>8, <1>9 DEF IInv

\* Whatever ends the innermost call, with a storage good for those outside it.
LEMMA Return ==
    ASSUME IInv, stack # <<>>, stack' = Rest,
           Storage' \in StorageType, Good(Storage', stack, Len(stack) - 1)
    PROVE  IInv'
<1>1. /\ Rest \in Seq(FrameType) /\ Len(Rest) = Len(stack) - 1
      /\ Agree(stack, Rest, Len(stack) - 1)
  BY RestFacts DEF IInv
<1>2. Len(stack) - 1 \in Nat
  BY StackFacts DEF IInv
<1>3. TypeOK'
  BY <1>1 DEF TypeOK
<1>4. Good(Storage', Rest, Len(Rest))
  BY <1>1, <1>2, GoodAgree
<1>5. \A k \in 1..(Len(stack) - 1) : Resumable(stack, k)
  BY <1>2 DEF IInv
<1>6. \A k \in 1..Len(Rest) : Resumable(Rest, k)
  BY <1>1, <1>2, <1>5, ResumableAgree
<1> QED
  BY <1>3, <1>4, <1>6 DEF IInv

LEMMA RevertPreserves ==
    ASSUME IInv, stack # <<>>, RevertCall
    PROVE  IInv'
<1>1. Top.before \in StorageType /\ Len(stack) \in 1..Len(stack) /\ Top = stack[Len(stack)]
  BY StackFacts, FrameFields DEF IInv
<1>2. Storage' = Top.before
  BY <1>1, Restored DEF RevertCall
<1>3. Good(Top.before, stack, Len(stack) - 1)
  BY <1>1 DEF IInv, Resumable
<1> QED
  BY <1>1, <1>2, <1>3, Return DEF RevertCall

\* Functions marked `authorized` touch neither the nonce nor the guards.
LEMMA ConfigurationPreserves ==
    ASSUME IInv, Storage' \in StorageType, UNCHANGED <<nonce, guards, ledger, stack>>
    PROVE  IInv'
<1>1. /\ Storage'.nonce = Storage.nonce /\ Storage'.ledger = Storage.ledger
      /\ Storage'.guards = Storage.guards
  BY DEF Storage
<1>2. Len(stack) \in Nat
  BY StackFacts DEF IInv
<1>3. Good(Storage', stack, Len(stack))
  BY <1>1, <1>2, GoodFields DEF IInv
<1> QED
  BY <1>3 DEF IInv, TypeOK
LEMMA EnteredType ==
    ASSUME NEW g \in Guard, NEW t \in Tx, NEW n \in Nonce,
           NEW x \in [active : BOOLEAN, txNonces : SUBSET (Tx \X Nonce)]
    PROVE  /\ Entered(g, x, t, n) \in [active : BOOLEAN, txNonces : SUBSET (Tx \X Nonce)]
           /\ Left(g, x, t, n) \in [active : BOOLEAN, txNonces : SUBSET (Tx \X Nonce)]
<1>1. CASE g = "reentrancy"
  BY <1>1 DEF Entered, Left, Raise, Lower, Record, Erase
<1>2. CASE g = "debug"
  BY <1>2 DEF Entered, Left, Raise, Lower, Record, Erase
<1>3. CASE g \notin {"reentrancy", "debug"}
  BY <1>3 DEF Entered, Left, Raise, Lower, Record, Erase
<1> QED
  BY <1>1, <1>2, <1>3

LEMMA ExecPreserves ==
    ASSUME IInv, NEW sender, NEW t \in Tx, execTransaction(sender, t)
    PROVE  IInv'
<1> DEFINE n == Len(stack)
           in == [Storage EXCEPT !.nonce = nonce', !.guards = guards']
           e == [kind |-> "owners", tx |-> t, nonce |-> nonce,
                 guard |-> guard, phase |-> "inner", before |-> Storage, inside |-> in]
<1>1. /\ Storage \in StorageType /\ owners \in SUBSET Account /\ threshold \in Nat
      /\ nonce \in 0..MaxNonce /\ nonce \in Nat /\ modules \in SUBSET Module /\ guard \in Guard
      /\ guards \in [active : BOOLEAN, txNonces : SUBSET (Tx \X Nonce)] /\ ledger \in LedgerType
  BY StorageTypes DEF IInv
<1>2. n \in Nat /\ stack \in Seq(FrameType)
  BY StackFacts DEF IInv
<1>3. nonce \in Nonce /\ nonce' = nonce + 1 /\ nonce' \in 0..MaxNonce
  BY <1>1, SafeAssumption DEF execTransaction, NextNonce, Nonce
<1>4. /\ guards' = Entered(guard, guards, t, nonce)
      /\ guards' \in [active : BOOLEAN, txNonces : SUBSET (Tx \X Nonce)]
  BY <1>1, <1>3, EnteredType DEF execTransaction
<1>5. Storage.nonce = nonce /\ Storage.guards = guards /\ Storage.ledger = ledger
  BY DEF Storage
<1>6. in \in StorageType /\ in = [Storage EXCEPT !.nonce = nonce + 1, !.guards = Entered(guard, Storage.guards, t, nonce)]
  BY <1>1, <1>3, <1>4, <1>5 DEF StorageType
<1>7. Storage' \in StorageType /\ Storage'.nonce = nonce + 1 /\ Storage'.ledger = ledger
      /\ Storage'.guards = Entered(guard, guards, t, nonce)
  BY <1>1, <1>3, <1>4 DEF execTransaction, Storage, StorageType, LedgerType
<1>8. e \in FrameType
  BY <1>1, <1>6, SafeAssumption DEF FrameType
<1>9. /\ e.kind = "owners" /\ e.tx = t /\ e.nonce = nonce /\ e.guard = guard
      /\ e.phase = "inner" /\ e.before = Storage /\ e.inside = in
  OBVIOUS
<1>10. stack' = Append(stack, e)
  BY DEF execTransaction
<1>11. guard = "reentrancy" => ~guards.active
  BY DEF execTransaction, Allows
<1> HIDE DEF e, in
<1>12. Entry(e)
  BY <1>3, <1>5, <1>6, <1>9, <1>11 DEF Entry
<1>13. /\ \A j \in 1..(n + 1) : stack'[j] \in FrameType
       /\ Agree(stack, stack', n) /\ stack'[n + 1] = e
  BY <1>2, <1>8, <1>10, AppendProperties, ElementOfSeq DEF Agree
<1>14. Good(Storage, stack', n)
  BY <1>2, <1>13, GoodAgree DEF IInv
<1>15. GoodLedger(Storage', stack', n + 1)
  BY <1>1, <1>2, <1>3, <1>5, <1>7, <1>9, <1>13, <1>14, LedgerEnter DEF Good
<1>16. GoodGuards(Storage', stack', n + 1)
  BY <1>1, <1>2, <1>3, <1>5, <1>7, <1>9, <1>11, <1>13, <1>14, GuardsEnter DEF Good
<1> QED
  BY <1>7, <1>8, <1>9, <1>10, <1>12, <1>15, <1>16, Begin DEF Good

\* In x the nonce m has the run r; the rest is as in l.
FirstRun(l, m, r, x) ==
    /\ x \in LedgerType
    /\ \A d \in Nonce : d # m => x[d] = l[d]
    /\ x[m].paid = 0 /\ Len(x[m].runs) = 1 /\ x[m].runs[1] = r

LEMMA RunCounted ==
    ASSUME NEW l \in LedgerType, NEW m \in Nonce, NEW r \in [tx : Tx, ok : BOOLEAN], l[m] = Blank
    PROVE  FirstRun(l, m, r, [l EXCEPT ![m].runs = Append(@, r)])
<1> DEFINE x == [l EXCEPT ![m].runs = Append(@, r)]
<1>1. l[m].runs \in Seq([tx : Tx, ok : BOOLEAN]) /\ l[m].paid = 0 /\ Len(l[m].runs) = 0
  BY DEF LedgerType, Blank
<1>2. /\ Append(l[m].runs, r) \in Seq([tx : Tx, ok : BOOLEAN])
      /\ Len(Append(l[m].runs, r)) = 1 /\ Append(l[m].runs, r)[1] = r
  BY <1>1, AppendProperties
<1>3. x \in LedgerType /\ \A d \in Nonce : d # m => x[d] = l[d]
  BY <1>1, <1>2 DEF LedgerType
<1>4. x[m].runs = Append(l[m].runs, r) /\ x[m].paid = 0
  BY <1>1 DEF LedgerType
<1> QED
  BY <1>2, <1>3, <1>4 DEF FirstRun

\* The call of the innermost transaction comes back with a verdict; s is the
\* storage at that moment but for the ledger.
LEMMA VerdictPreserves ==
    ASSUME IInv, stack # <<>>, Top.kind = "owners", Top.phase = "inner", Proceed,
           NEW s \in StorageType, Good(s, stack, Len(stack)),
           NEW ok \in BOOLEAN, Top.tx.gasPrice = 0 /\ Top.tx.safeTxGas = 0 => ok,
           Storage' \in StorageType, Storage'.nonce = s.nonce, Storage'.guards = s.guards,
           Storage'.ledger = [s.ledger EXCEPT ![Top.nonce].runs = Append(@, [tx |-> Top.tx, ok |-> ok])]
    PROVE  IInv'
<1> DEFINE m == Top.nonce
           r == [tx |-> Top.tx, ok |-> ok]
           l == s.ledger
           x == [l EXCEPT ![m].runs = Append(@, r)]
<1>1. /\ Len(stack) \in 1..Len(stack) /\ Top \in FrameType /\ Top = stack[Len(stack)]
  BY StackFacts DEF IInv
<1>2. m \in Nonce /\ Top.tx \in Tx
  BY <1>1 DEF IInv, Resumable, Entry
<1>3. l[m] = Blank
  BY <1>1 DEF Good, GoodLedger
<1>4. l \in LedgerType
  BY DEF StorageType, LedgerType
<1>5. r \in [tx : Tx, ok : BOOLEAN] /\ r.tx = Top.tx /\ r.ok = ok
  BY <1>2
<1>6. Storage'.ledger = x
  OBVIOUS
<1>7. /\ \A d \in Nonce : d # m => x[d] = l[d]
      /\ x[m].paid = 0 /\ Len(x[m].runs) = 1 /\ x[m].runs[1] = r
  <2>1. FirstRun(l, m, r, x)
    <3> HIDE DEF m, r, l
    <3> QED
      BY <1>2, <1>3, <1>4, <1>5, RunCounted
  <2> QED
    BY <2>1 DEF FirstRun
<1> HIDE DEF r, x
<1>8. Top.tx.gasPrice \in {0, 1}
  BY <1>1, FrameFields DEF TxFields
<1>9. CASE Top.tx.gasPrice = 0
  <2>1. stack' = [stack EXCEPT ![Len(stack)].phase = "after"]
    BY <1>9 DEF Proceed, NextPhase
  <2>2. Done(Storage'.ledger[m])
    <3>1. x[m].runs[1].tx = Top.tx /\ x[m].runs[1].ok = ok
      BY <1>5, <1>7
    <3>2. Top.tx.gasPrice = 0 /\ Top.tx.safeTxGas = 0 => x[m].runs[1].ok
      BY <3>1
    <3>3. Len(x[m].runs) = 1 /\ x[m].paid = IF x[m].runs[1].tx.gasPrice > 0 THEN 1 ELSE 0
      BY <1>7, <1>9, <3>1
    <3>4. Done(x[m])
      BY <3>1, <3>2, <3>3 DEF Done
    <3> QED
      BY <1>6, <3>4
  <2> QED
    BY <1>6, <1>7, <2>1, <2>2, MoveOn
<1>10. CASE Top.tx.gasPrice = 1
  <2>1. stack' = [stack EXCEPT ![Len(stack)].phase = "payment"]
    BY <1>10 DEF Proceed, NextPhase
  <2>2. Awaiting(Storage'.ledger[m], Top.tx)
    BY <1>5, <1>6, <1>7, <1>10 DEF Awaiting
  <2> QED
    BY <1>6, <1>7, <2>1, <2>2, MoveOn
<1> QED
  BY <1>8, <1>9, <1>10
LEMMA CallSucceedsPreserves == ASSUME IInv, CallSucceeds PROVE IInv'
<1> DEFINE m == Top.nonce
           r == [tx |-> Top.tx, ok |-> TRUE]
           x == [ledger EXCEPT ![m].runs = Append(@, r)]
<1>1. stack # <<>> /\ Top.kind = "owners" /\ Top.phase = "inner" /\ Proceed
  BY DEF CallSucceeds, InPhase
<1>2. /\ Len(stack) \in 1..Len(stack) /\ Top = stack[Len(stack)]
  BY <1>1, StackFacts DEF IInv
<1>3. m \in Nonce /\ Top.tx \in Tx
  BY <1>1, <1>2 DEF IInv, Resumable, Entry
<1>4. Storage \in StorageType /\ ledger \in LedgerType
  BY StorageTypes DEF IInv
<1>5. ledger[m] = Blank
  BY <1>1, <1>2 DEF IInv, Good, GoodLedger, Storage
<1>6. x \in LedgerType
  <2>1. r \in [tx : Tx, ok : BOOLEAN]
    BY <1>3
  <2>2. FirstRun(ledger, m, r, x)
    <3> HIDE DEF r, m
    <3> QED
      BY <1>3, <1>4, <1>5, <2>1, RunCounted
  <2> QED
    BY <2>2 DEF FirstRun
<1>7. ledger' = x
  BY DEF CallSucceeds
<1>8. /\ Storage'.ledger = ledger' /\ Storage.ledger = ledger
      /\ Storage'.nonce = Storage.nonce /\ Storage'.guards = Storage.guards
  BY DEF CallSucceeds, Storage
<1>9. Storage' \in StorageType
  <2>1. ledger' \in LedgerType
    BY <1>6, <1>7
  <2> QED
    BY <1>4, <2>1 DEF CallSucceeds, Storage, StorageType, LedgerType
<1> QED
  BY <1>1, <1>4, <1>7, <1>8, <1>9, VerdictPreserves DEF IInv

LEMMA CallFailsPreserves == ASSUME IInv, CallFails PROVE IInv'
<1> DEFINE n == Len(stack)
           m == Top.nonce
           s == Top.inside
           r == [tx |-> Top.tx, ok |-> FALSE]
           l == s.ledger
           x == [l EXCEPT ![m].runs = Append(@, r)]
<1>1. stack # <<>> /\ Top.kind = "owners" /\ Top.phase = "inner"
  BY DEF CallFails, InPhase
<1>2. /\ n \in 1..n /\ n \in Nat \ {0} /\ Top = stack[n] /\ \A j \in 1..n : stack[j] \in FrameType
      /\ Top \in FrameType
  BY <1>1, StackFacts DEF IInv
<1>3. /\ m \in Nonce /\ Top.tx \in Tx /\ m = Top.before.nonce
      /\ Top.guard = "reentrancy" => ~Top.before.guards.active
      /\ s = [Top.before EXCEPT !.nonce = m + 1,
                                !.guards = Entered(Top.guard, Top.before.guards, Top.tx, m)]
  BY <1>1, <1>2 DEF IInv, Resumable, Entry
<1>4. s \in StorageType /\ Top.before \in StorageType
  BY <1>2, FrameFields
<1>5. /\ s.nonce = m + 1 /\ s.ledger = Top.before.ledger
      /\ s.guards = Entered(Top.guard, Top.before.guards, Top.tx, m)
  BY <1>3, <1>4 DEF StorageType
<1>6. CASE ~FailureTolerated(Top.tx)
  BY <1>1, <1>6, RevertPreserves DEF CallFails
<1>7. CASE FailureTolerated(Top.tx)
  <2>1. Proceed /\ Restore([s EXCEPT !.ledger[m].runs = Append(@, [tx |-> Top.tx, ok |-> FALSE])])
    BY <1>7 DEF CallFails
  <2>2. Good(s, stack, n)
    <3>1. Good(Top.before, stack, n - 1)
      BY <1>2 DEF IInv, Resumable
    <3> DEFINE k == n - 1
    <3>2. k + 1 = n /\ k \in Nat /\ stack[k + 1] = Top
      BY <1>2
    <3>3. /\ \A j \in 1..(k + 1) : stack[j] \in FrameType
          /\ GoodLedger(Top.before, stack, k) /\ GoodGuards(Top.before, stack, k)
      BY <1>2, <3>1, <3>2 DEF Good
    <3> HIDE DEF k
    <3>4. GoodLedger(s, stack, k + 1)
      BY <1>1, <1>3, <1>4, <1>5, <3>2, <3>3, LedgerEnter
    <3>5. GoodGuards(s, stack, k + 1)
      BY <1>3, <1>4, <1>5, <3>2, <3>3, GuardsEnter
    <3> QED
      BY <3>2, <3>4, <3>5 DEF Good
  <2>3. s.ledger \in LedgerType /\ s.ledger[m] = Blank
    BY <1>1, <1>2, <1>4, <2>2 DEF Good, GoodLedger, StorageType, LedgerType
  <2>4. x \in LedgerType
    <3>1. r \in [tx : Tx, ok : BOOLEAN]
      BY <1>3
    <3>2. FirstRun(l, m, r, x)
      <4>1. l \in LedgerType /\ l[m] = Blank
        BY <2>3
      <4> HIDE DEF r, m, l
      <4> QED
        BY <1>3, <3>1, <4>1, RunCounted
    <3> QED
      BY <3>2 DEF FirstRun
  <2> DEFINE end == [s EXCEPT !.ledger = x]
  <2>5. end = [s EXCEPT !.ledger[m].runs = Append(@, [tx |-> Top.tx, ok |-> FALSE])]
    BY <1>4 DEF StorageType
  <2>6. Restore(end)
    BY <2>1, <2>5
  <2> HIDE DEF x
  <2>7. /\ end \in StorageType /\ end.ledger = x /\ end.nonce = s.nonce /\ end.guards = s.guards
    BY <1>4, <2>4 DEF StorageType, LedgerType
  <2> HIDE DEF end
  <2>8. Storage' = end /\ Storage' \in StorageType
    BY <2>6, <2>7, Restored
  <2>9. ~(Top.tx.gasPrice = 0 /\ Top.tx.safeTxGas = 0)
    BY <1>7 DEF FailureTolerated
  <2>10. Storage'.ledger = [s.ledger EXCEPT ![m].runs = Append(@, [tx |-> Top.tx, ok |-> FALSE])]
    BY <2>7, <2>8 DEF x
  <2> QED
    BY <1>1, <1>4, <2>1, <2>2, <2>7, <2>8, <2>9, <2>10, VerdictPreserves
<1> QED
  BY <1>6, <1>7

\* In x one more payment for the nonce m than in l.
OnePaid(l, m, x) ==
    /\ x \in LedgerType /\ x[m].runs = l[m].runs /\ x[m].paid = l[m].paid + 1
    /\ \A d \in Nonce : d # m => x[d] = l[d]

LEMMA PaymentCounted ==
    ASSUME NEW l \in LedgerType, NEW m \in Nonce
    PROVE  OnePaid(l, m, [l EXCEPT ![m].paid = @ + 1])
<1> DEFINE E == [runs : Seq([tx : Tx, ok : BOOLEAN]), paid : Nat]
           e == [l[m] EXCEPT !.paid = @ + 1]
           x == [l EXCEPT ![m] = e]
<1>1. l \in [Nonce -> E] /\ l[m] \in E
  BY DEF LedgerType
<1>2. e \in E /\ e.runs = l[m].runs /\ e.paid = l[m].paid + 1
  BY <1>1
<1>3. x = [l EXCEPT ![m].paid = @ + 1]
  OBVIOUS
<1> HIDE DEF E, e
<1>4. x \in [Nonce -> E] /\ x[m] = e /\ \A d \in Nonce : d # m => x[d] = l[d]
  BY <1>1, <1>2
<1>5. x \in LedgerType
  BY <1>4 DEF LedgerType, E
<1> HIDE DEF x
<1> QED
  BY <1>2, <1>3, <1>4, <1>5 DEF OnePaid

LEMMA PaymentPreserves == ASSUME IInv, PaymentSucceeds PROVE IInv'
<1> DEFINE m == Top.nonce
           l == ledger
           x == [l EXCEPT ![m].paid = @ + 1]
<1>1. stack # <<>> /\ Top.phase = "payment"
  BY DEF PaymentSucceeds, InPhase
<1>2. Len(stack) \in 1..Len(stack) /\ Top = stack[Len(stack)] /\ Top \in FrameType
  BY <1>1, StackFacts DEF IInv
<1>3. Top.kind = "owners" /\ m \in Nonce
  BY <1>1, <1>2, FrameFields DEF IInv, Resumable, Entry
<1>4. Storage \in StorageType /\ ledger \in LedgerType /\ Good(Storage, stack, Len(stack))
  BY StorageTypes DEF IInv
<1>5. Awaiting(ledger[m], Top.tx)
  BY <1>1, <1>2, <1>3, <1>4 DEF Good, GoodLedger, Storage
<1>6. /\ x \in LedgerType /\ x[m].runs = ledger[m].runs /\ x[m].paid = ledger[m].paid + 1
      /\ \A d \in Nonce : d # m => x[d] = ledger[d]
  <2>1. OnePaid(l, m, x)
    <3> HIDE DEF m, l
    <3> QED
      BY <1>3, <1>4, PaymentCounted DEF l
  <2> QED
    BY <2>1 DEF OnePaid
<1>7. ledger' = x
  BY DEF PaymentSucceeds
<1> HIDE DEF x
<1>8. /\ Storage'.ledger = x /\ Storage.ledger = ledger
      /\ Storage'.nonce = Storage.nonce /\ Storage'.guards = Storage.guards
  BY <1>7 DEF PaymentSucceeds, Storage
<1>9. Storage' \in StorageType
  BY <1>4, <1>6, <1>7 DEF PaymentSucceeds, Storage, StorageType, LedgerType
<1>10. Done(Storage'.ledger[m])
  BY <1>5, <1>6, <1>8 DEF Done, Awaiting
<1>11. stack' = [stack EXCEPT ![Len(stack)].phase = "after"]
  BY DEF PaymentSucceeds
<1> QED
  BY <1>1, <1>3, <1>4, <1>6, <1>8, <1>9, <1>10, <1>11, MoveOn

LEMMA CompletePreserves == ASSUME IInv, Complete PROVE IInv'
<1> DEFINE n == Len(stack)
<1>1. stack # <<>> /\ Top.phase = "after"
  BY DEF Complete, InPhase
<1>2. /\ n \in 1..n /\ n \in Nat \ {0} /\ Top = stack[n] /\ \A j \in 1..n : stack[j] \in FrameType
      /\ Top \in FrameType
  BY <1>1, StackFacts DEF IInv
<1>3. Top.kind = "owners" /\ Top.nonce \in Nonce /\ Top.tx \in Tx /\ Top.guard \in Guard
  BY <1>1, <1>2, FrameFields DEF IInv, Resumable, Entry
<1>4. /\ Storage \in StorageType /\ Good(Storage, stack, n)
      /\ guards \in [active : BOOLEAN, txNonces : SUBSET (Tx \X Nonce)]
  BY StorageTypes DEF IInv
<1>5. CASE ~Releases(FinalGuard, guards, Top.tx, Top.nonce)
  BY <1>1, <1>5, RevertPreserves DEF Complete
<1>6. CASE Releases(FinalGuard, guards, Top.tx, Top.nonce)
  <2>1. /\ guards' = Left(Top.guard, guards, Top.tx, Top.nonce) /\ stack' = Rest
        /\ UNCHANGED <<owners, threshold, nonce, modules, guard, ledger>>
    BY <1>6 DEF Complete, FinalGuard
  <2>2. guards' \in [active : BOOLEAN, txNonces : SUBSET (Tx \X Nonce)]
    BY <1>3, <1>4, <2>1, EnteredType
  <2>3. Storage' \in StorageType
    BY <1>4, <2>1, <2>2 DEF Storage, StorageType
  <2>4. /\ Storage'.nonce = Storage.nonce /\ Storage'.ledger = Storage.ledger
        /\ Storage'.guards = Left(Top.guard, Storage.guards, Top.tx, Top.nonce)
    BY <2>1 DEF Storage
  <2>5. GoodLedger(Storage', stack, n - 1)
    <3>1. GoodLedger(Storage, stack, n - 1)
      BY <1>1, <1>2, <1>4, LedgerPop DEF Pending, Good
    <3> QED
      BY <2>4, <3>1 DEF GoodLedger
  <2>6. \A j \in 1..n : stack[j].kind # "owners" => stack[j].guard = "none"
    BY <1>2, FrameFields DEF IInv, Resumable, Entry
  <2>7. GoodGuards(Storage', stack, n - 1)
    BY <1>2, <1>3, <1>4, <2>4, <2>6, GuardsLeave DEF Good
  <2> QED
    BY <1>1, <2>1, <2>3, <2>5, <2>7, Return DEF Good
<1> QED
  BY <1>5, <1>6
\* Initially nothing has run and no call is in progress.
LEMMA InitIInv == Init => IInv
<1> SUFFICES ASSUME Init PROVE IInv
  OBVIOUS
<1>1. /\ nonce = 0 /\ stack = <<>> /\ ledger = [n \in Nonce |-> Blank]
      /\ guards.active = FALSE /\ guards.txNonces = {}
      /\ guards \in [active : BOOLEAN, txNonces : SUBSET (Tx \X Nonce)]
  BY DEF Init, FreshGuards
<1>2. owners \in SUBSET Account /\ threshold \in Nat /\ guard \in Guard /\ modules \in SUBSET Module
  <2>1. IsFiniteSet(Founders)
    BY SafeAssumption, FS_Subset
  <2>2. Cardinality(Founders) \in Nat
    BY <2>1, FS_CardinalityType
  <2> QED
    BY <2>2, SafeAssumption DEF Init
<1>3. ledger \in LedgerType /\ nonce \in 0..MaxNonce
  <2>1. Blank \in [runs : Seq([tx : Tx, ok : BOOLEAN]), paid : Nat]
    BY DEF Blank
  <2> QED
    BY <1>1, <2>1, SafeAssumption DEF LedgerType
<1>4. TypeOK
  <2>1. Storage \in StorageType
    BY <1>1, <1>2, <1>3 DEF Storage, StorageType, LedgerType
  <2> QED
    BY <1>1, <2>1 DEF TypeOK
<1>5. Len(stack) = 0 /\ 1..0 = {}
  BY <1>1
<1>6. Storage.nonce = 0 /\ Storage.guards = guards /\ Storage.ledger = ledger
  BY <1>1 DEF Storage
<1>7. GoodLedger(Storage, stack, 0)
  BY <1>1, <1>5, <1>6, NonceRange DEF GoodLedger
<1>8. GoodGuards(Storage, stack, 0)
  BY <1>1, <1>5, <1>6 DEF GoodGuards
<1> QED
  BY <1>4, <1>5, <1>7, <1>8 DEF IInv, Good

LEMMA ModuleEnterPreserves ==
    ASSUME IInv, NEW m, NEW own \in BOOLEAN, execTransactionFromModule(m, own)
    PROVE  IInv'
<1> DEFINE n == Len(stack)
           e == [kind |-> "module", tx |-> ModuleTx(own), nonce |-> nonce,
                 guard |-> "none", phase |-> "inner", before |-> Storage, inside |-> Storage]
<1>1. Storage \in StorageType /\ nonce \in 0..MaxNonce
  BY StorageTypes DEF IInv
<1>2. n \in Nat /\ stack \in Seq(FrameType)
  BY StackFacts DEF IInv
<1>3. ModuleTx(own) \in TxFields
  BY DEF ModuleTx, TxFields
<1>4. e \in FrameType
  BY <1>1, <1>3 DEF FrameType, Guard
<1>5. /\ e.kind = "module" /\ e.guard = "none" /\ e.phase = "inner"
      /\ e.before = Storage /\ e.inside = Storage
  OBVIOUS
<1>6. stack' = Append(stack, e)
  BY DEF execTransactionFromModule
<1> HIDE DEF e
<1>7. Entry(e)
  BY <1>5 DEF Entry
<1>8. Storage' = Storage
  BY DEF execTransactionFromModule, Storage
<1>9. Agree(stack, stack', n) /\ stack'[n + 1] = e
  BY <1>2, <1>4, <1>6, AppendProperties DEF Agree
<1>10. Good(Storage, stack', n)
  BY <1>2, <1>9, GoodAgree DEF IInv
<1>11. n + 1 \in Nat \ {0} /\ (n + 1) - 1 = n
  BY <1>2
<1>12. GoodLedger(Storage, stack', n + 1)
  BY <1>5, <1>9, <1>10, <1>11, LedgerPush DEF Good
<1>13. GoodGuards(Storage, stack', n + 1)
  <2>1. stack'[n + 1].guard \notin {"reentrancy", "debug"}
    BY <1>5, <1>9
  <2>2. GoodGuards(Storage, stack', n)
    BY <1>10 DEF Good
  <2> DEFINE m1 == n + 1
  <2>3. m1 \in Nat \ {0} /\ m1 - 1 = n
    BY <1>11
  <2>4. stack'[m1].guard \notin {"reentrancy", "debug"}
    BY <2>1
  <2> HIDE DEF m1
  <2>5. GoodGuards(Storage, stack', m1) <=> GoodGuards(Storage, stack', m1 - 1)
    BY <2>3, <2>4, GuardsUnguarded
  <2> QED
    BY <2>2, <2>3, <2>5 DEF m1
<1> QED
  BY <1>1, <1>4, <1>5, <1>6, <1>7, <1>8, <1>12, <1>13, Begin DEF Good

LEMMA ModuleReturnsPreserves ==
    ASSUME IInv, NEW success \in BOOLEAN, ModuleReturns(success)
    PROVE  IInv'
<1> DEFINE n == Len(stack)
<1>1. stack # <<>> /\ Top.kind = "module"
  BY DEF ModuleReturns, InPhase
<1>2. n \in 1..n /\ n \in Nat \ {0} /\ Top = stack[n]
  BY <1>1, StackFacts DEF IInv
<1>3. CASE success = TRUE
  <2>1. stack' = Rest /\ Storage' = Storage
    BY <1>3 DEF ModuleReturns, Storage
  <2>2. Good(Storage, stack, n) /\ Storage \in StorageType
    BY DEF IInv, TypeOK
  <2>3. Top.guard = "none"
    BY <1>1, <1>2 DEF IInv, Resumable, Entry
  <2>4. GoodLedger(Storage, stack, n - 1)
    BY <1>1, <1>2, <2>2, LedgerPop DEF Good, Pending
  <2>5. GoodGuards(Storage, stack, n - 1)
    BY <1>2, <2>2, <2>3, GuardsUnguarded DEF Good
  <2> QED
    BY <1>1, <2>1, <2>2, <2>4, <2>5, Return DEF Good
<1>4. CASE success = FALSE
  BY <1>1, <1>4, RevertPreserves DEF ModuleReturns
<1> QED
  BY <1>3, <1>4

LEMMA AuthorizedPreserves ==
    ASSUME IInv,
           \/ ChangeOwners
           \/ \E m \in Module : enableModule(m) \/ disableModule(m)
           \/ \E g \in GuardChoices : setGuard(g)
    PROVE  IInv'
<1>1. /\ owners \in SUBSET Account /\ threshold \in Nat /\ nonce \in 0..MaxNonce
      /\ modules \in SUBSET Module /\ guard \in Guard
      /\ guards \in [active : BOOLEAN, txNonces : SUBSET (Tx \X Nonce)] /\ ledger \in LedgerType
  BY StorageTypes DEF IInv
<1>2. CASE ChangeOwners
  <2>1. owners' \in SUBSET Account /\ threshold' \in Nat
    <3>1. PICK S \in SUBSET Account, q \in 1..Cardinality(Account) : Registry!Enact(S, q)
      BY <1>2 DEF ChangeOwners
    <3>2. Cardinality(Account) \in Nat
      BY SafeAssumption, FS_CardinalityType
    <3> QED
      BY <3>1, <3>2 DEF Registry!Enact
  <2>2. UNCHANGED <<nonce, modules, guard, guards, ledger, stack>>
    BY <1>2 DEF ChangeOwners
  <2>3. Storage' \in StorageType
    BY <1>1, <2>1, <2>2 DEF Storage, StorageType, LedgerType
  <2> QED
    BY <2>2, <2>3, ConfigurationPreserves
<1>3. CASE \E m \in Module : enableModule(m) \/ disableModule(m)
  <2>1. /\ modules' \in SUBSET Module
        /\ UNCHANGED <<owners, threshold, nonce, guard, guards, ledger, stack>>
    BY <1>1, <1>3 DEF enableModule, disableModule
  <2>2. Storage' \in StorageType
    BY <1>1, <2>1 DEF Storage, StorageType, LedgerType
  <2> QED
    BY <2>1, <2>2, ConfigurationPreserves
<1>4. CASE \E g \in GuardChoices : setGuard(g)
  <2>1. /\ guard' \in Guard
        /\ UNCHANGED <<owners, threshold, nonce, modules, guards, ledger, stack>>
    BY <1>4, SafeAssumption DEF setGuard
  <2>2. Storage' \in StorageType
    BY <1>1, <2>1 DEF Storage, StorageType, LedgerType
  <2> QED
    BY <2>1, <2>2, ConfigurationPreserves
<1> QED
  BY <1>2, <1>3, <1>4

LEMMA Inductive == IInv /\ [Next]_vars => IInv'
<1> SUFFICES ASSUME IInv, [Next]_vars PROVE IInv'
  OBVIOUS
<1>1. CASE \E sender \in Account \cup {Safe}, t \in Tx : execTransaction(sender, t)
  BY <1>1, ExecPreserves
<1>2. CASE CallSucceeds
  BY <1>2, CallSucceedsPreserves
<1>3. CASE CallFails
  BY <1>3, CallFailsPreserves
<1>4. CASE PaymentSucceeds
  BY <1>4, PaymentPreserves
<1>5. CASE PaymentFails \/ OutOfGas
  BY <1>5, RevertPreserves DEF PaymentFails, OutOfGas, InPhase
<1>6. CASE Complete
  BY <1>6, CompletePreserves
<1>7. CASE \E m \in Module, own \in BOOLEAN : execTransactionFromModule(m, own)
  BY <1>7, ModuleEnterPreserves
<1>8. CASE \E success \in BOOLEAN : ModuleReturns(success)
  BY <1>8, ModuleReturnsPreserves
<1>9. CASE \/ ChangeOwners
           \/ \E m \in Module : enableModule(m) \/ disableModule(m)
           \/ \E g \in GuardChoices : setGuard(g)
  BY <1>9, AuthorizedPreserves
<1>10. CASE UNCHANGED vars
  <2>1. Storage' = Storage /\ stack' = stack
    BY <1>10 DEF vars, Storage
  <2> QED
    BY <2>1 DEF IInv, TypeOK
<1> QED
  BY <1>1, <1>2, <1>3, <1>4, <1>5, <1>6, <1>7, <1>8, <1>9, <1>10 DEF Next

-----------------------------------------------------------------------------
(* The theorems. *)

\* Whatever contracts, modules and the Safe itself call during a call, the
\* storage stays good for all calls in progress, and so does the storage
\* that a revert of each of them brings back.
THEOREM Invariance == Spec => []IInv
BY InitIInv, Inductive, PTL DEF Spec

\* The storage fits its type, and so does every call in progress.
THEOREM TypeCorrect == Spec => []TypeOK
<1>1. IInv => TypeOK
  BY DEF IInv
<1> QED
  BY <1>1, Invariance, PTL

\* The nonce is increased before the call (GnosisSafe.sol, execTransaction),
\* so a set of confirmations runs no more than one transaction, however calls
\* are nested and reverted.
THEOREM OneExecution == Spec => []NonceRunsOnce
<1>1. IInv => NonceRunsOnce
  <2> SUFFICES ASSUME IInv, NEW m \in Nonce PROVE Len(ledger[m].runs) <= 1
    BY DEF NonceRunsOnce
  <2> DEFINE n == Len(stack)
  <2>1. /\ Storage.ledger = ledger /\ Storage.nonce = nonce /\ nonce \in Nat
        /\ n \in Nat /\ \A j \in 1..n : stack[j] \in FrameType
    BY StorageTypes, StackFacts DEF IInv, Storage
  <2>2. GoodLedger(Storage, stack, n)
    BY DEF IInv, Good
  <2>3. Len(Blank.runs) <= 1
    BY DEF Blank
  <2>4. CASE m >= nonce
    BY <2>1, <2>2, <2>3, <2>4 DEF GoodLedger
  <2>5. CASE m < nonce
    <3>1. CASE Done(ledger[m])
      BY <3>1 DEF Done
    <3>2. CASE \E j \in 1..n : Pending(stack[j]) /\ stack[j].nonce = m
      <4>1. PICK j \in 1..n : Pending(stack[j]) /\ stack[j].nonce = m
        BY <3>2
      <4>2. ledger[m] = Blank \/ Awaiting(ledger[m], stack[j].tx)
        BY <2>1, <2>2, <4>1 DEF GoodLedger, Pending
      <4>3. CASE ledger[m] = Blank
        BY <2>3, <4>3
      <4>4. CASE Awaiting(ledger[m], stack[j].tx)
        BY <4>4 DEF Awaiting
      <4> QED
        BY <4>2, <4>3, <4>4
    <3> QED
      BY <2>1, <2>2, <2>5, <3>1, <3>2 DEF GoodLedger
  <2> QED
    BY <2>1, <2>4, <2>5, NonceRange
<1> QED
  BY <1>1, Invariance, PTL

\* Between transactions every nonce below the Safe's has run, and no other.
LEMMA Between ==
    ASSUME IInv, stack = <<>>, NEW m \in Nonce
    PROVE  /\ m < nonce => Done(ledger[m])
           /\ m >= nonce => ledger[m] = Blank
           /\ ledger \in LedgerType /\ nonce \in Nat
<1>1. Len(stack) = 0 /\ 1..0 = {}
  OBVIOUS
<1>2. Storage.ledger = ledger /\ Storage.nonce = nonce /\ ledger \in LedgerType /\ nonce \in Nat
  BY StorageTypes DEF IInv, Storage
<1>3. GoodLedger(Storage, stack, 0)
  BY <1>1 DEF IInv, Good
<1> QED
  BY <1>1, <1>2, <1>3 DEF GoodLedger

\* Between transactions exactly the nonces below the Safe's have run: a
\* reverted execTransaction takes its increase of the nonce back, a failed
\* call does not.
THEOREM ExactNonces == Spec => []NoncesExact
<1>1. IInv => NoncesExact
  <2> SUFFICES ASSUME IInv, stack = <<>>, NEW m \in Nonce
               PROVE  ledger[m].runs # <<>> <=> m < nonce
    BY DEF NoncesExact
  <2>1. ledger[m].runs \in Seq([tx : Tx, ok : BOOLEAN]) /\ m \in Nat /\ nonce \in Nat
    BY Between, NonceRange DEF LedgerType
  <2>2. CASE m < nonce
    BY <2>1, <2>2, Between DEF Done
  <2>3. CASE m >= nonce
    BY <2>1, <2>3, Between DEF Blank
  <2> QED
    BY <2>1, <2>2, <2>3
<1> QED
  BY <1>1, Invariance, PTL

\* handlePayment is reached once for each transaction that has a gas price,
\* and GS013 undoes those that fail without a price and a gas limit.
THEOREM Settlement == Spec => []RunsSettled
<1>1. IInv => RunsSettled
  <2> SUFFICES ASSUME IInv, stack = <<>>, NEW m \in Nonce
               PROVE  LET runs == ledger[m].runs
                          paying == {j \in DOMAIN runs : runs[j].tx.gasPrice > 0}
                      IN  /\ ledger[m].paid = Cardinality(paying)
                          /\ \A j \in DOMAIN runs \ paying : runs[j].tx.safeTxGas = 0 => runs[j].ok
    BY DEF RunsSettled
  <2> DEFINE runs == ledger[m].runs
             paying == {j \in DOMAIN runs : runs[j].tx.gasPrice > 0}
  <2>1. runs \in Seq([tx : Tx, ok : BOOLEAN]) /\ m \in Nat /\ nonce \in Nat
    BY Between, NonceRange DEF LedgerType
  <2>2. DOMAIN runs = 1..Len(runs)
    BY <2>1, LenProperties
  <2>3. Cardinality({}) = 0 /\ Cardinality({1}) = 1
    BY FS_EmptySet, FS_Singleton
  <2>4. CASE m >= nonce
    <3>1. ledger[m] = Blank
      BY <2>4, Between
    <3>2. runs = <<>> /\ ledger[m].paid = 0
      BY <3>1 DEF Blank
    <3>3. DOMAIN runs = {}
      BY <2>2, <3>2
    <3> QED
      BY <2>3, <3>2, <3>3
  <2>5. CASE m < nonce
    <3>1. Done(ledger[m])
      BY <2>5, Between
    <3>2. DOMAIN runs = {1}
      BY <2>2, <3>1 DEF Done
    <3>3. runs[1] \in [tx : Tx, ok : BOOLEAN]
      BY <2>1, <2>2, <3>2, ElementOfSeq
    <3>4. runs[1].tx.gasPrice \in {0, 1}
      BY <3>3, SafeAssumption DEF TxFields
    <3>5. CASE runs[1].tx.gasPrice = 0
      <4>1. paying = {}
        BY <3>2, <3>5
      <4> QED
        BY <2>3, <3>1, <3>2, <3>5, <4>1 DEF Done
    <3>6. CASE runs[1].tx.gasPrice = 1
      <4>1. paying = {1}
        BY <3>2, <3>6
      <4> QED
        BY <2>3, <3>1, <3>2, <3>6, <4>1 DEF Done
    <3> QED
      BY <3>4, <3>5, <3>6
  <2> QED
    BY <2>1, <2>4, <2>5
<1> QED
  BY <1>1, Invariance, PTL

\* ReentrancyTransactionGuard is free between transactions, although setGuard
\* may have replaced it during the one that took its flag: the guard asked at
\* the end is the one asked at the beginning.
THEOREM GuardsFree == Spec => []GuardReleased
<1>1. IInv => GuardReleased
  <2> SUFFICES ASSUME IInv, stack = <<>> PROVE ~guards.active /\ guards.txNonces = {}
    BY DEF GuardReleased
  <2>1. Len(stack) = 0 /\ 1..0 = {}
    OBVIOUS
  <2>2. Storage.guards = guards /\ guards.txNonces \in SUBSET (Tx \X Nonce)
    BY StorageTypes DEF IInv, Storage
  <2>3. GoodGuards(Storage, stack, 0)
    BY <2>1 DEF IInv, Good
  <2> QED
    BY <2>1, <2>2, <2>3 DEF GoodGuards
<1> QED
  BY <1>1, Invariance, PTL

\* What DebugTransactionGuard has recorded at the beginning is there at the
\* end, but for nonce 0: it is the caller's only transaction of that nonce.
THEOREM RecordsHold == Spec => []RecordedTxEnds
<1>1. IInv => RecordedTxEnds
  <2> SUFFICES ASSUME IInv, stack # <<>>, Top.phase = "after"
               PROVE  Releases(Top.guard, guards, Top.tx, Top.nonce)
                      <=> Top.guard # "debug" \/ Top.nonce # 0
    BY DEF RecordedTxEnds, InPhase
  <2> DEFINE n == Len(stack)
  <2>1. /\ n \in 1..n /\ n \in Nat \ {0} /\ Top = stack[n] /\ Top \in FrameType
        /\ \A j \in 1..n : stack[j] \in FrameType
    BY StackFacts DEF IInv
  <2>2. Top.kind = "owners" /\ Top.nonce \in Nonce /\ Top.tx \in Tx
    BY <2>1, FrameFields DEF IInv, Resumable, Entry
  <2>3. Storage.guards = guards /\ GoodGuards(Storage, stack, n) /\ GoodLedger(Storage, stack, n)
    BY DEF IInv, Good, Storage
  <2>4. <<Top.tx, Top.nonce>> \in guards.txNonces
        <=> \E j \in 1..n : Recorded(stack[j]) /\ <<Top.tx, Top.nonce>> = <<stack[j].tx, stack[j].nonce>>
    BY <2>2, <2>3 DEF GoodGuards
  <2>5. \A j \in 1..n : Recorded(stack[j]) => stack[j].kind = "owners"
    BY <2>1, FrameFields DEF IInv, Resumable, Entry, Recorded
  <2>6. \A j \in 1..n : Recorded(stack[j]) /\ stack[j].nonce = Top.nonce => stack[j] = Top
    BY <2>1, <2>2, <2>3, <2>5 DEF GoodLedger
  <2>7. <<Top.tx, Top.nonce>> \in guards.txNonces <=> Recorded(Top)
    BY <2>1, <2>4, <2>6
  <2> QED
    BY <2>7 DEF Releases, Recorded
<1> QED
  BY <1>1, Invariance, PTL
-----------------------------------------------------------------------------
(* The log of the Safe. *)

\* What a storage b has settled, s has kept.
Kept(s, b) ==
    /\ s.nonce >= b.nonce
    /\ \A m \in Nonce : m < b.nonce => s.ledger[m] = b.ledger[m]

\* No call in progress has touched, or will bring back, less than what was
\* settled before the outermost one.
KInv ==
    /\ Kept(Storage, Settled)
    /\ \A k \in 1..Len(stack) : Kept(stack[k].before, stack[1].before)

LEMMA KeptTrans ==
    ASSUME NEW s, NEW t, NEW b, Kept(s, b), t.nonce \in Nat, s.nonce \in Nat, b.nonce \in Nat,
           t.nonce >= s.nonce,
           \A m \in Nonce : m < b.nonce => t.ledger[m] = s.ledger[m]
    PROVE  Kept(t, b)
BY DEF Kept

LEMMA SettledNonce == ASSUME TypeOK PROVE Settled \in StorageType /\ Settled.nonce \in Nat
<1>1. CASE stack = <<>>
  BY <1>1, StorageTypes, StorageFields DEF Settled
<1>2. CASE stack # <<>>
  <2>1. 1 \in 1..Len(stack) /\ stack[1] \in FrameType
    BY <1>2, StackFacts
  <2> QED
    BY <1>2, <2>1, FrameFields, StorageFields DEF Settled
<1> QED
  BY <1>1, <1>2

\* The three shapes of a step: a call begins, ends, or goes on.
LEMMA KeptBegin ==
    ASSUME TypeOK, KInv, NEW e \in FrameType, e.before = Storage, stack' = Append(stack, e),
           Storage' \in StorageType, Storage'.nonce >= nonce, Storage'.ledger = ledger
    PROVE  KInv' /\ Kept(Settled', Settled)
<1> DEFINE n == Len(stack)
<1>1. n \in Nat /\ stack \in Seq(FrameType) /\ (stack # <<>> => 1 \in 1..n /\ n \in Nat \ {0})
  BY StackFacts
<1>2. /\ Len(stack') = n + 1 /\ stack' # <<>> /\ stack'[n + 1] = e
      /\ \A k \in 1..n : stack'[k] = stack[k]
  BY <1>1, AppendProperties
<1>3. \A k \in 1..(n + 1) : k \in 1..n \/ k = n + 1
  BY <1>1
<1>4. Settled' = Settled
  <2>1. CASE stack = <<>>
    BY <1>2, <2>1 DEF Settled
  <2>2. CASE stack # <<>>
    BY <1>1, <1>2, <2>2 DEF Settled
  <2> QED
    BY <2>1, <2>2
<1>5. stack'[1].before = Settled
  BY <1>2, <1>4 DEF Settled
<1>6. Storage.nonce = nonce /\ Storage.ledger = ledger /\ nonce \in Nat /\ Settled.nonce \in Nat
      /\ Storage'.nonce \in Nat
  BY StorageTypes, SettledNonce, StorageFields DEF Storage
<1>7. Kept(Storage', Settled)
  BY <1>6, KeptTrans DEF KInv
<1>8. \A k \in 1..(n + 1) : Kept(stack'[k].before, stack'[1].before)
  <2>1. \A k \in 1..n : Kept(stack'[k].before, Settled)
    BY <1>1, <1>2 DEF KInv, Settled
  <2> QED
    BY <1>2, <1>3, <1>5, <2>1 DEF KInv
<1>9. Kept(Settled, Settled)
  BY <1>6 DEF Kept
<1> QED
  BY <1>2, <1>4, <1>7, <1>8, <1>9 DEF KInv

LEMMA KeptGoOn ==
    ASSUME TypeOK, KInv, stack # <<>>, Len(stack') = Len(stack),
           \A k \in 1..Len(stack) : stack'[k].before = stack[k].before,
           Kept(Storage', stack[1].before)
    PROVE  KInv' /\ Kept(Settled', Settled)
<1>1. 1 \in 1..Len(stack)
  BY StackFacts
<1>2. stack' # <<>>
  BY <1>1
<1>3. Settled' = Settled /\ Settled = stack[1].before
  BY <1>1, <1>2 DEF Settled
<1>4. \A k \in 1..Len(stack') : Kept(stack'[k].before, stack'[1].before)
  BY <1>1 DEF KInv
<1>5. Kept(Settled, Settled)
  BY SettledNonce DEF Kept
<1> QED
  BY <1>3, <1>4, <1>5 DEF KInv

LEMMA KeptReturn ==
    ASSUME TypeOK, KInv, stack # <<>>, stack' = Rest, Storage' \in StorageType,
           Kept(Storage', stack[1].before)
    PROVE  KInv' /\ Kept(Settled', Settled)
<1>1. 1 \in 1..Len(stack) /\ Len(stack) \in Nat
  BY StackFacts
<1>2. /\ stack' \in Seq(FrameType) /\ Len(stack') = Len(stack) - 1
      /\ \A k \in 1..(Len(stack) - 1) : stack'[k] = stack[k]
  BY RestFacts DEF Agree
<1>3. Settled = stack[1].before
  BY DEF Settled
<1>4. Kept(Settled, Settled)
  BY SettledNonce DEF Kept
<1>5. CASE stack' = <<>>
  <2>1. Len(stack') = 0
    BY <1>5
  <2>2. Settled' = Storage'
    BY <1>5 DEF Settled
  <2>3. Kept(Storage', Storage')
    <3>1. Storage'.nonce \in Nat
      BY StorageFields
    <3> QED
      BY <3>1 DEF Kept
  <2> QED
    BY <1>3, <2>1, <2>2, <2>3 DEF KInv
<1>6. CASE stack' # <<>>
  <2>1. 1 \in 1..(Len(stack) - 1)
    BY <1>1, <1>2, <1>6, EmptySeq
  <2>2. Settled' = Settled
    BY <1>2, <1>3, <1>6, <2>1 DEF Settled
  <2>3. \A k \in 1..Len(stack') : Kept(stack'[k].before, stack'[1].before)
    BY <1>1, <1>2, <2>1 DEF KInv
  <2> QED
    BY <1>3, <1>4, <2>2, <2>3 DEF KInv
<1> QED
  BY <1>5, <1>6
LEMMA AppendTyped ==
    ASSUME NEW st \in Seq(FrameType), NEW e, NEW tt \in Seq(FrameType), tt = Append(st, e)
    PROVE  e \in FrameType
<1>1. Len(st) \in Nat /\ Len(tt) = Len(st) + 1 /\ tt[Len(st) + 1] = e
  BY AppendProperties
<1>2. Len(st) + 1 \in 1..Len(tt)
  BY <1>1
<1> QED
  BY <1>1, <1>2, ElementOfSeq

LEMMA PhaseOnly ==
    ASSUME TypeOK, stack # <<>>, NEW p, stack' = [stack EXCEPT ![Len(stack)].phase = p]
    PROVE  Len(stack') = Len(stack) /\ \A k \in 1..Len(stack) : stack'[k].before = stack[k].before
<1> DEFINE e == [Top EXCEPT !.phase = p]
<1>1. /\ Len(stack) \in 1..Len(stack) /\ Top = stack[Len(stack)] /\ Top \in FrameType
      /\ stack \in Seq(FrameType)
  BY StackFacts
<1>2. stack' = [stack EXCEPT ![Len(stack)] = e] /\ e.before = Top.before
  BY <1>1 DEF FrameType
<1> HIDE DEF e
<1>3. DOMAIN stack = 1..Len(stack) /\ DOMAIN stack' = DOMAIN stack
  BY <1>1, <1>2, LenProperties
<1>4. \A k \in 1..Len(stack) : stack'[k] = IF k = Len(stack) THEN e ELSE stack[k]
  BY <1>2, <1>3
<1>5. Len(stack') = Len(stack)
  BY <1>1, <1>2, <1>3
<1> QED
  BY <1>1, <1>2, <1>4, <1>5
\* A call in progress has a nonce that was not settled before the outermost.
LEMMA TopLater ==
    ASSUME IInv, KInv, stack # <<>>
    PROVE  /\ 1 \in 1..Len(stack) /\ Len(stack) \in 1..Len(stack) /\ Top = stack[Len(stack)]
           /\ Kept(Top.before, stack[1].before) /\ Kept(Storage, stack[1].before)
           /\ Top.before \in StorageType /\ stack[1].before.nonce \in Nat
           /\ Top.kind = "owners" =>
                 /\ Top.nonce \in Nonce /\ Top.nonce \in Nat
                 /\ Top.nonce >= stack[1].before.nonce
                 /\ Top.inside.nonce = Top.nonce + 1 /\ Top.inside.ledger = Top.before.ledger
                 /\ Top.inside \in StorageType /\ Top.before.nonce = Top.nonce
<1>1. 1 \in 1..Len(stack) /\ Len(stack) \in 1..Len(stack) /\ Top = stack[Len(stack)] /\ Top \in FrameType
  BY StackFacts DEF IInv
<1>2. Top.before \in StorageType /\ Top.inside \in StorageType /\ stack[1].before.nonce \in Nat
  <2>1. stack[1] \in FrameType
    BY <1>1, StackFacts DEF IInv
  <2> QED
    BY <1>1, <2>1, FrameFields, StorageFields
<1>3. Kept(Top.before, stack[1].before) /\ Kept(Storage, stack[1].before)
  BY <1>1 DEF KInv, Settled
<1>4. Entry(Top)
  BY <1>1 DEF IInv, Resumable
<1>5. ASSUME Top.kind = "owners"
      PROVE  /\ Top.nonce \in Nonce /\ Top.nonce \in Nat
             /\ Top.nonce >= stack[1].before.nonce
             /\ Top.inside.nonce = Top.nonce + 1 /\ Top.inside.ledger = Top.before.ledger
             /\ Top.before.nonce = Top.nonce
  <2>1. /\ Top.nonce = Top.before.nonce /\ Top.nonce \in Nonce
        /\ Top.inside = [Top.before EXCEPT !.nonce = Top.nonce + 1,
                                           !.guards = Entered(Top.guard, Top.before.guards, Top.tx, Top.nonce)]
    BY <1>4, <1>5 DEF Entry
  <2>2. Top.inside.nonce = Top.nonce + 1 /\ Top.inside.ledger = Top.before.ledger
    BY <1>2, <2>1 DEF StorageType
  <2> QED
    BY <1>3, <2>1, <2>2, NonceRange DEF Kept
<1> QED
  BY <1>1, <1>2, <1>3, <1>5

LEMMA KeptRevert ==
    ASSUME IInv, KInv, stack # <<>>, RevertCall
    PROVE  KInv' /\ Kept(Settled', Settled)
<1>1. Storage' = Top.before /\ Storage' \in StorageType /\ stack' = Rest
  BY TopLater, Restored DEF RevertCall
<1> QED
  BY <1>1, TopLater, KeptReturn DEF IInv

LEMMA KeptStep ==
    ASSUME IInv, KInv, [Next]_vars
    PROVE  KInv' /\ Kept(Settled', Settled)
<1>1. /\ Storage \in StorageType /\ Storage' \in StorageType /\ stack' \in Seq(FrameType)
      /\ nonce \in Nat /\ nonce' \in Nat /\ Storage.nonce = nonce /\ Storage.ledger = ledger
      /\ Storage'.nonce = nonce' /\ Storage'.ledger = ledger'
  <2>1. IInv'
    BY Inductive
  <2>2. Storage' \in StorageType /\ stack' \in Seq(FrameType)
    BY <2>1 DEF IInv, TypeOK
  <2> QED
    BY <2>2, StorageTypes, StorageFields DEF IInv, Storage
<1>2. CASE \E sender \in Account \cup {Safe}, t \in Tx : execTransaction(sender, t)
  <2>1. PICK sender \in Account \cup {Safe}, t \in Tx : execTransaction(sender, t)
    BY <1>2
  <2> DEFINE e == [kind |-> "owners", tx |-> t, nonce |-> nonce,
                   guard |-> guard, phase |-> "inner", before |-> Storage,
                   inside |-> [Storage EXCEPT !.nonce = nonce', !.guards = guards']]
  <2>2. stack' = Append(stack, e) /\ nonce' = nonce + 1 /\ ledger' = ledger
    BY <2>1 DEF execTransaction, NextNonce
  <2>3. e.before = Storage
    OBVIOUS
  <2> HIDE DEF e
  <2>4. e \in FrameType
    BY <1>1, <2>2, StackFacts, AppendTyped DEF IInv
  <2> QED
    BY <1>1, <2>2, <2>3, <2>4, KeptBegin DEF IInv
<1>3. CASE \E m \in Module, own \in BOOLEAN : execTransactionFromModule(m, own)
  <2>1. PICK m \in Module, own \in BOOLEAN : execTransactionFromModule(m, own)
    BY <1>3
  <2> DEFINE e == [kind |-> "module", tx |-> ModuleTx(own), nonce |-> nonce,
                   guard |-> "none", phase |-> "inner", before |-> Storage, inside |-> Storage]
  <2>2. stack' = Append(stack, e) /\ nonce' = nonce /\ ledger' = ledger
    BY <2>1 DEF execTransactionFromModule
  <2>3. e.before = Storage
    OBVIOUS
  <2> HIDE DEF e
  <2>4. e \in FrameType
    BY <1>1, <2>2, StackFacts, AppendTyped DEF IInv
  <2> QED
    BY <1>1, <2>2, <2>3, <2>4, KeptBegin DEF IInv
<1>4. CASE PaymentFails \/ OutOfGas \/ (Complete /\ RevertCall) \/ (CallFails /\ RevertCall)
           \/ \E success \in BOOLEAN : ModuleReturns(success) /\ RevertCall
  BY <1>4, KeptRevert DEF PaymentFails, OutOfGas, Complete, CallFails, ModuleReturns, InPhase
<1>5. CASE (Complete \/ \E success \in BOOLEAN : ModuleReturns(success))
           /\ stack' = Rest /\ UNCHANGED <<nonce, ledger>>
  <2>1. stack # <<>>
    BY <1>5 DEF Complete, ModuleReturns, InPhase
  <2>2. Kept(Storage', stack[1].before)
    BY <1>1, <1>5, <2>1, TopLater DEF Kept
  <2> QED
    BY <1>1, <1>5, <2>1, <2>2, KeptReturn DEF IInv
<1>6. CASE CallSucceeds \/ PaymentSucceeds
  <2>1. stack # <<>> /\ Top.kind = "owners"
    BY <1>6, StackFacts, FrameFields DEF CallSucceeds, PaymentSucceeds, InPhase, IInv, Resumable, Entry
  <2>2. /\ nonce' = nonce
        /\ \A m \in Nonce : m # Top.nonce => ledger'[m] = ledger[m]
    <3>1. ledger \in LedgerType
      BY StorageTypes DEF IInv
    <3> QED
      BY <1>6, <3>1 DEF CallSucceeds, PaymentSucceeds, LedgerType
  <2>3. Kept(Storage', stack[1].before)
    BY <1>1, <2>1, <2>2, TopLater, NonceRange DEF Kept
  <2>4. PICK p : stack' = [stack EXCEPT ![Len(stack)].phase = p]
    BY <1>6 DEF CallSucceeds, PaymentSucceeds, Proceed
  <2>5. Len(stack') = Len(stack) /\ \A k \in 1..Len(stack) : stack'[k].before = stack[k].before
    BY <2>1, <2>4, PhaseOnly DEF IInv
  <2> QED
    BY <2>1, <2>3, <2>5, KeptGoOn DEF IInv
<1>7. CASE CallFails /\ FailureTolerated(Top.tx)
  <2> DEFINE l == Top.inside.ledger
             end == [Top.inside EXCEPT !.ledger[Top.nonce].runs = Append(@, [tx |-> Top.tx, ok |-> FALSE])]
  <2>1. stack # <<>> /\ Top.kind = "owners" /\ Proceed /\ Restore(end)
    BY <1>7 DEF CallFails, InPhase
  <2>2. Top.inside \in StorageType /\ Top.nonce \in Nonce
    BY <2>1, TopLater
  <2>3. /\ end.nonce = Top.inside.nonce
        /\ \A m \in Nonce : m # Top.nonce => end.ledger[m] = Top.inside.ledger[m]
    BY <2>2 DEF StorageType
  <2>4. nonce' = end.nonce /\ ledger' = end.ledger
    BY <2>1 DEF Restore
  <2> HIDE DEF end
  <2>5. Kept(Storage', stack[1].before)
    <3>1. nonce' >= stack[1].before.nonce
      BY <2>1, <2>3, <2>4, TopLater
    <3>2. \A m \in Nonce : m < stack[1].before.nonce => ledger'[m] = stack[1].before.ledger[m]
      BY <2>1, <2>3, <2>4, TopLater, NonceRange DEF Kept
    <3> QED
      BY <1>1, <3>1, <3>2 DEF Kept
  <2>6. PICK p : stack' = [stack EXCEPT ![Len(stack)].phase = p]
    BY <2>1 DEF Proceed
  <2>7. Len(stack') = Len(stack) /\ \A k \in 1..Len(stack) : stack'[k].before = stack[k].before
    BY <2>1, <2>6, PhaseOnly DEF IInv
  <2> QED
    BY <2>1, <2>5, <2>7, KeptGoOn DEF IInv
<1>8. CASE UNCHANGED <<nonce, ledger, stack>>
  <2>1. CASE stack = <<>>
    <3>1. Settled' = Storage' /\ Settled = Storage /\ Len(stack') = 0
      BY <1>8, <2>1 DEF Settled
    <3> QED
      BY <1>1, <1>8, <2>1, <3>1 DEF KInv, Kept
  <2>2. CASE stack # <<>>
    <3>1. Kept(Storage', stack[1].before)
      BY <1>1, <1>8, <2>2, TopLater DEF Kept
    <3> QED
      BY <1>8, <2>2, <3>1, KeptGoOn DEF IInv
  <2> QED
    BY <2>1, <2>2
<1> QED
  <2>1. CASE Complete
    BY <1>4, <1>5, <2>1 DEF Complete
  <2>2. CASE CallFails
    BY <1>4, <1>7, <2>2 DEF CallFails
  <2>3. CASE \E success \in BOOLEAN : ModuleReturns(success)
    BY <1>4, <1>5, <2>3 DEF ModuleReturns
  <2>4. CASE ChangeOwners \/ (\E m \in Module : enableModule(m) \/ disableModule(m))
             \/ (\E g \in GuardChoices : setGuard(g)) \/ UNCHANGED vars
    BY <1>8, <2>4 DEF ChangeOwners, enableModule, disableModule, setGuard, vars
  <2> QED
    BY <1>2, <1>3, <1>4, <1>6, <2>1, <2>2, <2>3, <2>4 DEF Next
\* A storage between transactions, and the log it stands for.
Flat(s) ==
    /\ s \in StorageType
    /\ \A m \in Nonce : (m < s.nonce => Done(s.ledger[m])) /\ (m >= s.nonce => s.ledger[m] = Blank)

LogOf(s) == [i \in 1..s.nonce |-> s.ledger[i - 1].runs[1].tx]

LEMMA LogTyped ==
    ASSUME NEW s, Flat(s)
    PROVE  LogOf(s) \in Seq(Tx) /\ Len(LogOf(s)) = s.nonce /\ s.nonce \in Nat
<1>1. s.nonce \in Nat /\ s.nonce \in 0..MaxNonce
  BY StorageFields DEF Flat
<1>2. ASSUME NEW i \in 1..s.nonce PROVE s.ledger[i - 1].runs[1].tx \in Tx
  <2>1. i - 1 \in Nonce /\ i - 1 < s.nonce
    BY <1>1, SafeAssumption DEF Nonce
  <2>2. Len(s.ledger[i - 1].runs) = 1 /\ s.ledger[i - 1].runs \in Seq([tx : Tx, ok : BOOLEAN])
    BY <2>1, StorageFields DEF Flat, Done
  <2> DEFINE runs == s.ledger[i - 1].runs
  <2>3. runs[1] \in [tx : Tx, ok : BOOLEAN]
    <3>1. runs \in Seq([tx : Tx, ok : BOOLEAN]) /\ 1 \in 1..Len(runs)
      BY <2>2
    <3> HIDE DEF runs
    <3> QED
      BY <3>1, ElementOfSeq
  <2> QED
    BY <2>3
<1>3. LogOf(s) \in [1..s.nonce -> Tx]
  BY <1>2 DEF LogOf
<1>4. LogOf(s) \in Seq(Tx)
  BY <1>1, <1>3, SeqDef
<1>5. DOMAIN LogOf(s) = 1..s.nonce
  BY DEF LogOf
<1>6. Len(LogOf(s)) = s.nonce
  BY <1>1, <1>4, <1>5, LenProperties
<1> QED
  BY <1>1, <1>4, <1>6

LEMMA LogGrows ==
    ASSUME NEW s, NEW t, Flat(s), Flat(t), Kept(t, s)
    PROVE  /\ LogOf(t) \in Seq(Tx) /\ Len(LogOf(t)) >= Len(LogOf(s))
           /\ SubSeq(LogOf(t), 1, Len(LogOf(s))) = LogOf(s)
<1> DEFINE n == s.nonce
           u == LogOf(s)
           v == LogOf(t)
           w == SubSeq(v, 1, n)
<1>1. /\ u \in Seq(Tx) /\ Len(u) = n /\ n \in Nat
      /\ v \in Seq(Tx) /\ Len(v) = t.nonce /\ t.nonce \in Nat /\ t.nonce >= n
  BY LogTyped DEF Kept
<1>2. n <= MaxNonce
  BY StorageFields DEF Flat
<1>3. \A i \in 1..n : v[i] = u[i]
  <2> SUFFICES ASSUME NEW i \in 1..n PROVE LogOf(t)[i] = LogOf(s)[i]
    OBVIOUS
  <2>1. i \in 1..t.nonce /\ i - 1 \in Nonce /\ i - 1 < n
    BY <1>1, <1>2, SafeAssumption DEF Nonce
  <2>2. t.ledger[i - 1] = s.ledger[i - 1]
    BY <2>1 DEF Kept
  <2> QED
    BY <2>1, <2>2 DEF LogOf
<1> HIDE DEF n, u, v
<1>4. \A i \in 1..n : v[i] \in Tx
  BY <1>1, ElementOfSeq
<1>5. /\ w \in Seq(Tx)
      /\ Len(w) = IF 1 <= n THEN n - 1 + 1 ELSE 0
      /\ \A i \in 1..(n - 1 + 1) : w[i] = v[1 + i - 1]
  BY <1>1, <1>4, SubSeqProperties
<1>6. Len(w) = n /\ \A i \in 1..n : w[i] = v[i]
  <2>1. \A k \in Nat : (IF 1 <= k THEN k - 1 + 1 ELSE 0) = k /\ k - 1 + 1 = k
    OBVIOUS
  <2>2. Len(w) = n /\ n - 1 + 1 = n
    BY <1>1, <1>5, <2>1
  <2>3. \A i \in 1..n : 1 + i - 1 = i
    BY <1>1
  <2> QED
    BY <1>5, <2>2, <2>3
<1>7. w = u
  BY <1>1, <1>3, <1>5, <1>6, SeqEqual
<1> QED
  BY <1>1, <1>7 DEF n, u, v

\* The log of SettledLog is that of the settled storage.
LEMMA LogRead ==
    ASSUME NEW s, Flat(s)
    PROVE  LET used == {m \in Nonce : s.ledger[m].runs # <<>>}
               Last(runs) == runs[Len(runs)]
           IN  [i \in 1..Cardinality(used) |-> Last(s.ledger[i - 1].runs).tx] = LogOf(s)
<1> DEFINE used == {m \in Nonce : s.ledger[m].runs # <<>>}
<1>1. s.nonce \in Nat /\ s.nonce <= MaxNonce
  BY StorageFields DEF Flat
<1>2. \A m \in Nonce : s.ledger[m].runs # <<>> <=> m < s.nonce
  <2> SUFFICES ASSUME NEW m \in Nonce PROVE s.ledger[m].runs # <<>> <=> m < s.nonce
    OBVIOUS
  <2>1. m \in Nat
    BY NonceRange
  <2>2. CASE m < s.nonce
    BY <2>2 DEF Flat, Done
  <2>3. CASE m >= s.nonce
    BY <1>1, <2>1, <2>3 DEF Flat, Blank
  <2> QED
    BY <1>1, <2>1, <2>2, <2>3
<1>3. used = 0..(s.nonce - 1)
  BY <1>1, <1>2, SafeAssumption DEF Nonce
<1>4. Cardinality(used) = s.nonce
  <2>1. ASSUME NEW k \in Nat PROVE Cardinality(0..(k - 1)) = k
    <3>1. Cardinality(0..(k - 1)) = IF 0 > k - 1 THEN 0 ELSE (k - 1) - 0 + 1
      BY FS_Interval
    <3>2. (IF 0 > k - 1 THEN 0 ELSE (k - 1) - 0 + 1) = k
      OBVIOUS
    <3> QED
      BY <3>1, <3>2
  <2>2. Cardinality(0..(s.nonce - 1)) = s.nonce
    BY <1>1, <2>1
  <2> QED
    BY <1>3, <2>2
<1>5. \A i \in 1..s.nonce : Len(s.ledger[i - 1].runs) = 1
  <2> SUFFICES ASSUME NEW i \in 1..s.nonce PROVE Len(s.ledger[i - 1].runs) = 1
    OBVIOUS
  <2>1. i - 1 \in Nonce /\ i - 1 < s.nonce
    BY <1>1, SafeAssumption DEF Nonce
  <2> QED
    BY <2>1 DEF Flat, Done
<1> QED
  BY <1>4, <1>5 DEF LogOf

LEMMA SettledFlat == IInv => Flat(Settled)
<1> SUFFICES ASSUME IInv PROVE Flat(Settled)
  OBVIOUS
<1>1. Settled \in StorageType
  BY SettledNonce DEF IInv
<1>2. GoodLedger(Settled, stack, 0)
  <2>1. CASE stack = <<>>
    <3>1. Len(stack) = 0
      BY <2>1
    <3> QED
      BY <2>1, <3>1 DEF IInv, Good, Settled
  <2>2. CASE stack # <<>>
    <3>1. 1 \in 1..Len(stack) /\ 1 - 1 = 0
      BY <2>2, StackFacts DEF IInv
    <3>2. Resumable(stack, 1)
      BY <3>1 DEF IInv
    <3> QED
      BY <2>2, <3>1, <3>2 DEF Resumable, Good, Settled
  <2> QED
    BY <2>1, <2>2
<1>3. 1..0 = {}
  OBVIOUS
<1> QED
  BY <1>1, <1>2, <1>3 DEF GoodLedger, Flat

\* Seen between transactions the Safe implements the append-only log of
\* TransactionLog: a transaction stands for good at the nonce its owners
\* signed for, whatever calls nest, fail and revert after it.
THEOREM ImplementsLog == Spec => LogSpec
<1>1. IInv => SettledLog = LogOf(Settled) /\ Flat(Settled)
  <2> SUFFICES ASSUME IInv PROVE SettledLog = LogOf(Settled) /\ Flat(Settled)
    OBVIOUS
  <2>1. Flat(Settled)
    BY SettledFlat
  <2> QED
    BY <2>1, LogRead DEF SettledLog
<1>2. Init => Log!Init /\ KInv
  <2> SUFFICES ASSUME Init PROVE Log!Init /\ KInv
    OBVIOUS
  <2>1. IInv /\ stack = <<>> /\ nonce = 0 /\ Settled = Storage /\ Len(stack) = 0
    BY InitIInv DEF Init, Settled
  <2>2. SettledLog = LogOf(Storage) /\ Storage.nonce = 0
    BY <1>1, <2>1 DEF Storage
  <2>3. LogOf(Storage) = <<>>
    BY <2>2 DEF LogOf
  <2>4. Kept(Storage, Storage)
    BY <2>2 DEF Kept
  <2> QED
    BY <2>1, <2>2, <2>3, <2>4 DEF Log!Init, KInv
<1>3. IInv /\ KInv /\ [Next]_vars => KInv'
  BY KeptStep
<1>4. /\ IInv /\ KInv /\ [Next]_vars
      /\ SettledLog = LogOf(Settled) /\ Flat(Settled)
      /\ (SettledLog = LogOf(Settled) /\ Flat(Settled))'
      => [Log!Extend]_SettledLog
  <2> SUFFICES ASSUME IInv, KInv, [Next]_vars, SettledLog = LogOf(Settled), Flat(Settled),
                      SettledLog' = LogOf(Settled)', Flat(Settled)'
               PROVE  Log!Extend
    OBVIOUS
  <2>1. Kept(Settled', Settled)
    BY KeptStep
  <2>2. LogOf(Settled)' = LogOf(Settled') /\ Flat(Settled')
    BY DEF LogOf, Flat, Nonce, Done, Blank, StorageType
  <2> QED
    BY <2>1, <2>2, LogGrows DEF Log!Extend
<1> QED
  BY <1>1, <1>2, <1>3, <1>4, Invariance, PTL DEF Spec, LogSpec, Log!Spec

-----------------------------------------------------------------------------
(* The gas and the payment of a transaction (GasAccounting): for every width *)
(* of a word, limit of gas and signed value.                                 *)

LEMMA WrappedType ==
    ASSUME NEW x \in Int
    PROVE  Wrapped(x) \in 0..(Word - 1)
<1>1. Word \in Nat /\ Word > 0
  BY GasAssumption
<1> QED
  BY <1>1 DEF Wrapped

LEMMA WrappedFits ==
    ASSUME NEW x \in 0..(Word - 1)
    PROVE  Wrapped(x) = x
<1>1. Word \in Nat /\ Word > 0
  BY GasAssumption
<1> QED
  BY <1>1 DEF Wrapped

\* A difference below zero wraps to as much below the word.
LEMMA WrappedBelow ==
    ASSUME NEW x \in Int, x < 0, x + Word >= 0
    PROVE  Wrapped(x) = Word + x
<1>1. Word \in Nat /\ Word > 0
  BY GasAssumption
<1> QED
  BY <1>1 DEF Wrapped

\* A 63rd more than s, less its 64th, is s; what falls short by e before the
\* 64th is taken falls short by no more than e after.
LEMMA SixtyThird ==
    ASSUME NEW s \in Nat, NEW g \in Nat, NEW e \in Nat, g + e >= (s * 64) \div 63
    PROVE  g - g \div 64 + e >= s
  OBVIOUS

LEMMA CostFields ==
    ASSUME NEW c \in Costs \cup {Free}
    PROVE  /\ c.before \in Nat /\ c.after \in Nat /\ c.start \in Nat /\ c.stipend \in Nat
           /\ c.stipend <= c.start /\ Spent(c) \in Nat
           /\ Spent(c) = c.before + c.after + c.start
<1>1. c \in Cost /\ c.stipend <= c.start
  BY GasAssumption DEF Cost, Free
<1> QED
  BY <1>1 DEF Cost, Spent

\* add of GnosisSafeMath reverts unless the sum fits.
LEMMA AddExact ==
    ASSUME NEW x \in 0..(Word - 1), NEW y \in 0..(Word - 1), AddFits(x, y)
    PROVE  Wrapped(x + y) = x + y
<1>1. Word \in Nat /\ Word > 0
  BY GasAssumption
<1>2. x + y >= Word => (x + y) % Word = x + y - Word
  BY <1>1
<1>3. x + y < Word => (x + y) % Word = x + y
  BY <1>1
<1> QED
  BY <1>1, <1>2, <1>3 DEF AddFits, Wrapped

LEMMA ProductMonotone ==
    ASSUME NEW x \in Nat, NEW y \in Nat, NEW u \in Nat, NEW v \in Nat, x <= u, y <= v
    PROVE  x * y <= u * v /\ x * y \in Nat
  OBVIOUS

LEMMA RemainderBounded ==
    ASSUME NEW x \in Nat, NEW w \in Nat \ {0}
    PROVE x % w <= x
  OBVIOUS

LEMMA QuotientTimes ==
    ASSUME NEW z \in Nat, NEW x \in Nat \ {0}
    PROVE x * (z \div x) <= z
  OBVIOUS

\* mul reverts unless the product fits.
LEMMA MulExact ==
    ASSUME NEW x \in 0..(Word - 1), NEW y \in 0..(Word - 1), MulFits(x, y)
    PROVE  Wrapped(x * y) = x * y
<1>1. Word \in Nat /\ Word > 0 /\ x * y \in Nat
  BY GasAssumption, ProductMonotone
<1>2. CASE x = 0
  BY <1>1, <1>2 DEF Wrapped
<1>3. CASE x # 0
  <2> DEFINE z == Wrapped(x * y)
  <2>1. z \in Nat /\ z <= x * y
    BY <1>1, WrappedType, RemainderBounded, GasAssumption DEF Wrapped
  <2>2. z \div x = y
    BY <1>3 DEF MulFits
  <2>3. x * (z \div x) <= z
    BY <1>3, <2>1, QuotientTimes
  <2> QED
    BY <1>1, <2>1, <2>2, <2>3
<1> QED
  BY <1>2, <1>3
LEMMA ReceivedType ==
    ASSUME NEW requested \in Nat, NEW gas \in Nat
    PROVE  Received(requested, gas) \in 0..gas
  BY DEF Received, Least

LEMMA RequiredCovers ==
    ASSUME NEW s \in 0..(Word - 1), Ordinary(s),
           NEW g \in 0..BlockGas, g >= RequiredGas(s)
    PROVE  g >= s + 3000 /\ g >= (s * 64) \div 63 + 500
<1> DEFINE x == Wrapped(s * 64) \div 63
<1>1. Wrapped(s + 2500) = s + 2500
  BY WrappedFits, GasAssumption DEF Ordinary
<1>2. Wrapped(s * 64) \in 0..(Word - 1)
  BY WrappedType, GasAssumption
<1>3. x \in Nat /\ x + 500 < Word
  <2>1. 63 * x <= Word - 1 /\ x \in Nat
    BY <1>2, GasAssumption
  <2> QED
    BY <2>1, GasAssumption
<1>4. max(x, s + 2500) \in Nat /\ max(x, s + 2500) + 500 <= Word - 1
  BY <1>3, GasAssumption DEF max, Ordinary
<1>5. RequiredGas(s) = max(x, s + 2500) + 500
  BY <1>1, <1>4, WrappedFits, GasAssumption DEF RequiredGas
<1>6. g >= s + 3000 /\ g >= x + 500
  BY <1>3, <1>5 DEF max
<1>7. Wrapped(s * 64) = s * 64
  BY <1>6, WrappedFits, GasAssumption
<1> QED
  BY <1>6, <1>7

-----------------------------------------------------------------------------
(* The invariant *)

\* What GS010 has established for the call, and the call for what follows.
GasInv ==
    /\ pc = "checked" /\ contract = "safe" => gasleft >= RequiredGas(tx.safeTxGas)
    /\ ShortfallBounded
    /\ EventGasLeft
    /\ Called /\ tx.gasPrice > 0 => gasUsed <= tx.safeTxGas + Spent(cost)
    /\ RefundBounded

PaymentInv == GasTypeOK /\ GasInv

LEMMA SignedFields ==
    ASSUME tx \in SignedTx
    PROVE  /\ tx.safeTxGas \in 0..(Word - 1) /\ tx.baseGas \in 0..(Word - 1)
           /\ tx.gasPrice \in 0..(Word - 1) /\ tx.ether \in BOOLEAN
<1>1. /\ tx.safeTxGas \in SafeTxGas /\ tx.baseGas \in BaseGas
      /\ tx.gasPrice \in Price /\ tx.ether \in BOOLEAN
  BY DEF SignedTx
<1>2. /\ SafeTxGas \subseteq 0..(Word - 1) /\ BaseGas \subseteq 0..(Word - 1)
      /\ Price \subseteq 0..(Word - 1)
  BY GasAssumption
<1>3. tx.safeTxGas \in 0..(Word - 1)
  BY <1>1, <1>2
<1>4. tx.baseGas \in 0..(Word - 1)
  BY <1>1, <1>2
<1>5. tx.gasPrice \in 0..(Word - 1)
  BY <1>1, <1>2
<1> QED
  BY <1>1, <1>3, <1>4, <1>5, Zenon

LEMMA InitPayment ==
    GasInit => PaymentInv
  BY GasAssumption
  DEF GasInit, PaymentInv, GasTypeOK, GasInv, ShortfallBounded, EventGasLeft,
                      RefundBounded, Called

LEMMA CheckGasPayment ==
    ASSUME PaymentInv, CheckGas
    PROVE  PaymentInv'
<1>1. GasTypeOK'
  BY DEF PaymentInv, GasTypeOK, CheckGas
<1>2. pc = "start" /\ pc' \in {"reverted", "checked"}
  BY DEF CheckGas
<1>3. pc' = "checked" /\ contract' = "safe" => gasleft' >= RequiredGas(tx.safeTxGas)'
  <2>1. RequiredGas(tx.safeTxGas)' = RequiredGas(tx.safeTxGas)
    BY DEF CheckGas, RequiredGas, Wrapped, max
  <2>2. RequiredGas(tx.safeTxGas) \in Int /\ gasleft \in Int
    <3>1. gasleft \in Int /\ tx.safeTxGas \in Int /\ Word \in Int /\ Word > 0
      BY SignedFields, GasAssumption DEF PaymentInv, GasTypeOK
    <3>2. \A x \in Int : Wrapped(x) \in Int
      BY <3>1 DEF Wrapped
    <3>3. Wrapped(tx.safeTxGas * 64) \div 63 \in Int /\ Wrapped(tx.safeTxGas + 2500) \in Int
      BY <3>1, <3>2
    <3>4. max(Wrapped(tx.safeTxGas * 64) \div 63, Wrapped(tx.safeTxGas + 2500)) \in Int
      BY <3>3 DEF max
    <3> QED
      BY <3>1, <3>2, <3>4 DEF RequiredGas
  <2> QED
    BY <2>1, <2>2 DEF CheckGas
<1> QED
  BY <1>1, <1>2, <1>3
  DEF PaymentInv, GasInv, ShortfallBounded, EventGasLeft, RefundBounded, Called

LEMMA GasRunsOutPayment ==
    ASSUME PaymentInv, GasRunsOut
    PROVE  PaymentInv'
  BY DEF GasRunsOut, PaymentInv, GasTypeOK, GasInv, ShortfallBounded, EventGasLeft,
         RefundBounded, Called

LEMMA RequestedType ==
    ASSUME GasTypeOK, NEW gas \in Int
    PROVE  Requested(gas) \in 0..(Word - 1)
  BY WrappedType, SignedFields, GasAssumption DEF GasTypeOK, Requested

LEMMA CallPayment ==
    ASSUME PaymentInv, Call
    PROVE  PaymentInv'
<1>1. PICK c \in Costs, all \in BOOLEAN :
        LET given == Received(Requested(gasleft - c.before), gasleft - Spent(c))
        IN  /\ Spent(c) <= gasleft
            /\ cost' = c
            /\ forwarded' = given + c.stipend
            /\ gasUsed' = Spent(c) + (IF all THEN given ELSE -c.stipend)
            /\ gasleft' = gasleft - gasUsed'
  BY DEF Call
<1> DEFINE s == tx.safeTxGas
           g == gasleft - Spent(c)
           requested == Requested(gasleft - c.before)
           given == Received(requested, g)
<1>2. /\ c.before \in Nat /\ c.after \in Nat /\ c.start \in Nat /\ c.stipend \in Nat
      /\ c.stipend <= c.start /\ Spent(c) \in Nat
      /\ Spent(c) = c.before + c.after + c.start
  BY CostFields
<1>3. gasleft \in 0..BlockGas /\ BlockGas \in Nat /\ Word \in Nat
  BY GasAssumption DEF PaymentInv, GasTypeOK
<1>4. g \in 0..BlockGas /\ Spent(c) <= gasleft
  BY <1>1, <1>2, <1>3
<1>5. requested \in 0..(Word - 1)
  BY <1>2, <1>3, RequestedType, GasAssumption DEF PaymentInv
<1>6. given \in 0..g /\ given <= requested
  <2>1. given \in 0..g
    BY <1>3, <1>4, <1>5, ReceivedType
  <2>2. given <= requested
    BY <1>3, <1>4, <1>5 DEF Received, Least
  <2> QED
    BY <2>1, <2>2
<1>7. given = IF requested <= g - g \div 64 THEN requested ELSE g - g \div 64
  BY DEF Received, Least
<1> HIDE DEF given, requested
<1>8. /\ cost' = c /\ forwarded' = given + c.stipend
      /\ gasUsed' = Spent(c) + (IF all THEN given ELSE -c.stipend)
      /\ gasleft' = gasleft - gasUsed'
  BY <1>1 DEF given, requested
<1>9. /\ gasUsed' \in 0..BlockGas /\ gasleft' \in 0..BlockGas
      /\ forwarded' \in 0..BlockGas
      /\ gasUsed' <= Spent(c) + given
  BY <1>2, <1>3, <1>4, <1>6, <1>8
<1>10. UNCHANGED <<contract, tx, gasprice, payment>> /\ pc = "checked" /\ pc' = "called"
  BY DEF Call
<1>11. GasTypeOK'
  BY <1>8, <1>9, <1>10 DEF PaymentInv, GasTypeOK
<1>12. ASSUME contract = "safe", Ordinary(s)
       PROVE  ShortfallBounded' /\ EventGasLeft'
  <2>1. s \in 0..(Word - 1)
    BY SignedFields, GasAssumption DEF PaymentInv, GasTypeOK
  <2>2. gasleft >= RequiredGas(s)
    BY <1>10, <1>12 DEF PaymentInv, GasInv
  <2>3. gasleft >= s + 3000 /\ gasleft >= (s * 64) \div 63 + 500
    BY <1>3, <1>12, <2>1, <2>2, RequiredCovers, GasAssumption
  <2>4. tx.gasPrice # 0 => requested = s
    BY DEF requested, Requested
  <2>5. tx.gasPrice = 0 /\ gasleft - c.before >= 2500 => requested = gasleft - c.before - 2500
    <3>1. gasleft - c.before >= 2500 => gasleft - c.before - 2500 \in 0..(Word - 1)
      BY <1>2, <1>3, GasAssumption
    <3> QED
      BY <3>1, WrappedFits, GasAssumption DEF requested, Requested
  <2>6. tx.gasPrice = 0 /\ gasleft - c.before < 2500 => requested >= gasleft
    <3> SUFFICES ASSUME tx.gasPrice = 0, gasleft - c.before < 2500
                 PROVE  requested >= gasleft
      OBVIOUS
    <3>1. PICK x \in Int : x = gasleft - c.before - 2500
      BY <1>2, <1>3
    <3>2. x < 0 /\ x + 2500 >= 0 /\ 2500 <= Word - BlockGas
      <4>1. c.before <= gasleft
        BY <1>2, <1>3, <1>4
      <4> QED
        BY <1>2, <1>3, <3>1, <4>1, GasAssumption
    <3>3. requested = Word + x
      BY <3>1, <3>2, WrappedBelow, GasAssumption DEF requested, Requested
    <3> QED
      BY <1>3, <3>2, <3>3, GasAssumption
  <2>7. PICK e \in Nat : e = max(Spent(c) - CodeGas, 0) /\ Spent(c) <= e + 500
    BY <1>2 DEF max, CodeGas
  <2>8. forwarded' + e >= s
    <3>1. requested + e >= s
      <4>1. PICK l \in Int, b \in Int, r \in Int, m \in Int :
                l = gasleft /\ b = c.before /\ r = requested /\ m = s
        BY <1>2, <1>3, <1>5, <2>1
      <4>2. e \in Int /\ e >= 0 /\ b <= e + 500 /\ l >= m + 3000
        BY <1>2, <2>3, <2>7, <4>1
      <4>3. r = m \/ r = l - b - 2500 \/ r >= l
        BY <1>2, <1>3, <2>4, <2>5, <2>6, <4>1
      <4>4. r + e >= m
        BY <4>2, <4>3
      <4> QED
        BY <4>1, <4>4
    <3>2. g - g \div 64 + e >= s
      <4>1. g + e >= (s * 64) \div 63
        BY <1>2, <1>3, <1>4, <2>1, <2>3, <2>7
      <4> QED
        BY <1>4, <2>1, <2>7, <4>1, SixtyThird
    <3>3. given + e >= s
      BY <1>7, <3>1, <3>2
    <3> QED
      BY <1>2, <1>6, <1>8, <2>1, <2>7, <3>3
  <2>9. c.before <= CodeGas => gasleft' + c.after + c.start >= 2500
    <3>1. gasleft' >= g - given
      BY <1>2, <1>3, <1>4, <1>6, <1>8
    <3>2. CASE tx.gasPrice = 0
      BY <1>2, <1>3, <1>4, <1>6, <1>9, <2>1, <2>3, <2>5, <3>1, <3>2 DEF CodeGas
    <3>3. CASE tx.gasPrice # 0
      BY <1>2, <1>3, <1>4, <1>6, <1>9, <2>1, <2>3, <2>4, <3>1, <3>3 DEF CodeGas
    <3> QED
      BY <3>2, <3>3
  <2>10. Unreckoned' = e
    BY <1>8, <2>7 DEF Unreckoned, max, Spent
  <2> QED
    BY <1>8, <1>10, <2>8, <2>9, <2>10 DEF ShortfallBounded, EventGasLeft
<1>13. ShortfallBounded' /\ EventGasLeft'
  BY <1>10, <1>12 DEF ShortfallBounded, EventGasLeft, Ordinary, Called
<1>14. tx.gasPrice > 0 => gasUsed' <= s + Spent(c)
  <2>1. tx.gasPrice > 0 => requested = s
    BY SignedFields, GasAssumption DEF PaymentInv, GasTypeOK, requested, Requested
  <2> QED
    BY <1>2, <1>3, <1>4, <1>6, <1>9, <2>1, SignedFields, GasAssumption
    DEF PaymentInv, GasTypeOK
<1> QED
  BY <1>8, <1>10, <1>11, <1>13, <1>14 DEF PaymentInv, GasInv, RefundBounded, Spent

LEMMA SettlePayment ==
    ASSUME PaymentInv, Settle
    PROVE  PaymentInv'
<1>1. pc = "called" /\ pc' \in {"reverted", "done"}
      /\ UNCHANGED <<contract, tx, gasprice, gasleft, cost, forwarded, gasUsed>>
  BY DEF Settle
<1>2. payment' \in 0..(Word - 1)
  <2>1. CASE UNCHANGED payment
    BY <2>1 DEF PaymentInv, GasTypeOK
  <2>2. CASE payment' = Wrapped(Wrapped(gasUsed + tx.baseGas) * EffectivePrice)
    <3>1. Wrapped(gasUsed + tx.baseGas) \in Int
      BY WrappedType, SignedFields, GasAssumption DEF PaymentInv, GasTypeOK
    <3>2. EffectivePrice \in Int
      BY SignedFields, GasAssumption
      DEF PaymentInv, GasTypeOK, EffectivePrice, Least
    <3> QED
      BY <2>2, <3>1, <3>2, WrappedType, GasAssumption
  <2> QED
    BY <2>1, <2>2 DEF Settle
<1>3. GasTypeOK'
  BY <1>1, <1>2 DEF PaymentInv, GasTypeOK
<1>4. RefundBounded'
  <2>1. tx' = tx /\ gasUsed' = gasUsed /\ gasprice' = gasprice /\ cost' = cost
    BY <1>1
  <2>2. EffectivePrice' = EffectivePrice
    BY <2>1 DEF EffectivePrice, Least
  <2>3. SUFFICES ASSUME pc' = "done", tx.gasPrice > 0
                 PROVE  /\ payment' = (gasUsed + tx.baseGas) * EffectivePrice
                        /\ payment' <= (tx.safeTxGas + Spent(cost) + tx.baseGas) * tx.gasPrice
                        /\ tx.ether => payment' <= (gasUsed + tx.baseGas) * gasprice
    BY <2>1, <2>2 DEF RefundBounded, Spent
  <2>4. /\ PaymentFits
        /\ payment' = Wrapped(Wrapped(gasUsed + tx.baseGas) * EffectivePrice)
    BY <2>3, SignedFields, GasAssumption DEF Settle, PaymentInv, GasTypeOK
  <2>5. /\ gasUsed \in 0..(Word - 1) /\ tx.baseGas \in 0..(Word - 1)
        /\ tx.safeTxGas \in Nat /\ tx.gasPrice \in Nat /\ gasprice \in Nat
        /\ Word \in Nat
    <3>1. gasUsed \in 0..(Word - 1) /\ Word \in Nat /\ gasprice \in Nat
      BY GasAssumption DEF PaymentInv, GasTypeOK
    <3> QED
      BY <3>1, SignedFields, GasAssumption DEF PaymentInv, GasTypeOK
  <2>6. /\ EffectivePrice \in 0..(Word - 1) /\ EffectivePrice <= tx.gasPrice
        /\ tx.ether => EffectivePrice <= gasprice
    <3>1. tx.gasPrice \in 0..(Word - 1) /\ gasprice \in 0..(Word - 1)
      BY SignedFields, GasAssumption DEF PaymentInv, GasTypeOK
    <3> QED
      BY <3>1 DEF EffectivePrice, Least
  <2> DEFINE total == gasUsed + tx.baseGas
  <2>7. Wrapped(total) = total /\ total \in 0..(Word - 1)
    BY <2>4, <2>5, AddExact, WrappedType, GasAssumption DEF PaymentFits
  <2>8. payment' = total * EffectivePrice
    BY <2>4, <2>6, <2>7, MulExact, GasAssumption DEF PaymentFits
  <2>12. Spent(cost) \in Nat
    BY CostFields DEF PaymentInv, GasTypeOK
  <2>9. total <= tx.safeTxGas + Spent(cost) + tx.baseGas
    BY <1>1, <2>3, <2>5, <2>12 DEF PaymentInv, GasInv, Called
  <2>10. total * EffectivePrice <= (tx.safeTxGas + Spent(cost) + tx.baseGas) * tx.gasPrice
    <3>1. PICK x \in Nat, y \in Nat, u \in Nat, v \in Nat :
              /\ x = total /\ y = EffectivePrice
              /\ u = tx.safeTxGas + Spent(cost) + tx.baseGas /\ v = tx.gasPrice
      BY <2>5, <2>6, <2>7, <2>12
    <3>2. x <= u /\ y <= v
      BY <2>6, <2>9, <3>1
    <3>3. x * y <= u * v
      BY <3>2, ProductMonotone
    <3> QED
      BY <3>1, <3>3
  <2>11. tx.ether => total * EffectivePrice <= total * gasprice
    BY <2>5, <2>6, <2>7, ProductMonotone
  <2> QED
    BY <2>8, <2>10, <2>11
<1> QED
  BY <1>1, <1>3, <1>4 DEF PaymentInv, GasInv, ShortfallBounded, Unreckoned, EventGasLeft,
                          Called, Spent, max

LEMMA NextPayment ==
    PaymentInv /\ [GasNext]_gasVars => PaymentInv'
<1> SUFFICES ASSUME PaymentInv, [GasNext]_gasVars PROVE PaymentInv'
  OBVIOUS
<1>1. CASE UNCHANGED gasVars
  BY <1>1
  DEF gasVars, PaymentInv, GasTypeOK, GasInv, ShortfallBounded, Unreckoned,
      EventGasLeft, RefundBounded, Spent, EffectivePrice, Least, Called, RequiredGas,
      Wrapped, max, Ordinary
<1> QED
  BY <1>1, CheckGasPayment, CallPayment, GasRunsOutPayment, SettlePayment DEF GasNext

-----------------------------------------------------------------------------
(* The theorems *)

LEMMA PaymentInvariance ==
    GasSpec => []PaymentInv
  BY InitPayment, NextPayment, PTL, GasAssumption DEF GasSpec

\* The gas amounts stay within the gas of the transaction and the payment
\* within a word (execTransaction and executeCheck).
THEOREM PaymentTypeCorrect ==
    GasSpec => []GasTypeOK
<1>1. PaymentInv => GasTypeOK
  BY DEF PaymentInv
<1> QED
  BY <1>1, PaymentInvariance, PTL

\* ShortfallBounded: GS010 gives the callee of a Safe its safeTxGas but for
\* what the call costs beyond the 500 reckoned with, for every width of a word,
\* every cost of a call and every signed value for which its sums do not wrap.
THEOREM Shortfall ==
    GasSpec => []ShortfallBounded
<1>1. PaymentInv => ShortfallBounded
  BY DEF PaymentInv, GasInv
<1> QED
  BY <1>1, PaymentInvariance, PTL

\* EventGasLeft: a callee that spends all it got leaves the 2500 for the
\* events but for what the code and the start of the CALL have taken of them.
THEOREM EventGas ==
    GasSpec => []EventGasLeft
<1>1. PaymentInv => EventGasLeft
  BY DEF PaymentInv, GasInv
<1> QED
  BY <1>1, PaymentInvariance, PTL

\* RefundBounded: the refund is computed without overflow and never exceeds
\* what the owners signed and the call cost to make, nor in ether what the relayer pays for the gas (handlePayment).
THEOREM Refund ==
    GasSpec => []RefundBounded
<1>1. PaymentInv => RefundBounded
  BY DEF PaymentInv, GasInv
<1> QED
  BY <1>1, PaymentInvariance, PTL
=============================================================================
