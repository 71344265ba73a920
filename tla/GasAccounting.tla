---------------------------- MODULE GasAccounting ----------------------------
(***************************************************************************)
(* The gas of one execTransaction (contracts/GnosisSafe.sol) or one        *)
(* executeCheck (contracts/CheckExecutor.sol), from the check of GS010 to  *)
(* the payment, with the arithmetic of solc 0.7.6: + - * wrap at the width *)
(* of a word, GnosisSafeMath reverts instead.                              *)
(***************************************************************************)
EXTENDS Integers

CONSTANTS
    Word,           \* 2^256, the number of values of a uint256
    BlockGas,       \* the most gas a transaction can have
    Contracts,      \* bound: which of the two contracts runs
    Gas,            \* bound: gas left at the check
    SafeTxGas,      \* bound: signed values of safeTxGas
    BaseGas,
    Price,          \* bound: signed gas prices and those of transactions
    Costs           \* bound: what the call costs beside the gas passed on

\* "some to perform code until the execution (500)" (GnosisSafe.sol:167).
CodeGas == 500

\* before: the code up to the reading of gasleft(), with the copy of the data;
\* after: the rest of the code; start: the CALL itself, more for an account
\* not accessed yet, for value and for a new account; stipend: what a callee
\* that receives value gets out of that.
Cost == [before : Nat, after : Nat, start : Nat, stipend : Nat]

Free == [before |-> 0, after |-> 0, start |-> 0, stipend |-> 0]

Spent(c) == c.before + c.after + c.start

\* The gas of a transaction is far from the width of a word.
ASSUME GasAssumption ==
    /\ Word \in Nat /\ BlockGas \in Nat /\ BlockGas >= 3000 /\ 64 * BlockGas < Word
    /\ Contracts \subseteq {"safe", "executor"}
    /\ Gas \subseteq 0..BlockGas
    /\ SafeTxGas \subseteq 0..(Word - 1) /\ BaseGas \subseteq 0..(Word - 1)
    /\ Price \subseteq 0..(Word - 1)
    /\ Costs \subseteq {c \in Cost : c.stipend <= c.start}

Wrapped(x) == x % Word

max(a, b) == IF a >= b THEN a ELSE b
Least(a, b) == IF a <= b THEN a ELSE b

VARIABLES
    pc,             \* "start", "checked", "called", "done" or "reverted"
    contract,
    tx,             \* the signed safeTxGas, baseGas, gasPrice and kind of token
    gasprice,       \* tx.gasprice of the transaction that carries it
    gasleft,
    cost,           \* of the call, among Costs
    forwarded,      \* the gas the inner call received
    gasUsed,
    payment

gasVars == <<pc, contract, tx, gasprice, gasleft, cost, forwarded, gasUsed, payment>>

SignedTx == [safeTxGas : SafeTxGas, baseGas : BaseGas, gasPrice : Price, ether : BOOLEAN]

GasInit ==
    /\ pc = "start"
    /\ contract \in Contracts /\ tx \in SignedTx /\ gasprice \in Price
    /\ gasleft \in Gas
    /\ cost = Free /\ forwarded = 0 /\ gasUsed = 0 /\ payment = 0

-----------------------------------------------------------------------------
(* The check and the call *)

\* Mutant of RequiredGas: the 1/64 that a call does not get is forgotten.
RequiredGasWithout64th(s) == Wrapped(s + 2500) + 500

\* GS010: ((safeTxGas * 64) / 63).max(safeTxGas + 2500) + 500
RequiredGas(s) == Wrapped(max(Wrapped(s * 64) \div 63, Wrapped(s + 2500)) + 500)

CheckGas ==
    /\ pc = "start"
    /\ pc' = IF contract = "safe" /\ gasleft < RequiredGas(tx.safeTxGas)
             THEN "reverted" ELSE "checked"
    /\ UNCHANGED <<contract, tx, gasprice, gasleft, cost, forwarded, gasUsed, payment>>

\* Mutants of Requested: all gas is passed on although a refund is paid;
\* nothing is kept for the events.
RequestedForAll(gas) == Wrapped(gas - 2500)
RequestedWhole(gas) == IF tx.gasPrice = 0 THEN gas ELSE tx.safeTxGas

\* gasPrice == 0 ? (gasleft() - 2500) : safeTxGas
Requested(gas) == IF tx.gasPrice = 0 THEN Wrapped(gas - 2500) ELSE tx.safeTxGas

\* EIP-150: a call receives at most all but one 64th.
Received(requested, gas) == Least(requested, gas - gas \div 64)

\* The callee spends nothing or everything; what it leaves comes back.
Call ==
    /\ pc = "checked"
    /\ \E c \in Costs, all \in BOOLEAN :
          LET given == Received(Requested(gasleft - c.before), gasleft - Spent(c))
          IN  /\ Spent(c) <= gasleft
              /\ cost' = c
              /\ forwarded' = given + c.stipend
              /\ gasUsed' = Spent(c) + (IF all THEN given ELSE -c.stipend)
              /\ gasleft' = gasleft - gasUsed'
    /\ pc' = "called"
    /\ UNCHANGED <<contract, tx, gasprice, payment>>

\* The gas does not last until the callee starts.
GasRunsOut ==
    /\ pc = "checked"
    /\ \E c \in Costs : Spent(c) > gasleft
    /\ pc' = "reverted"
    /\ UNCHANGED <<contract, tx, gasprice, gasleft, cost, forwarded, gasUsed, payment>>

-----------------------------------------------------------------------------
(* The payment *)

\* GnosisSafeMath: add and mul do not revert.
AddFits(a, b) == Wrapped(a + b) >= a
MulFits(a, b) == a # 0 => Wrapped(a * b) \div a = b

EffectivePrice == IF tx.ether THEN Least(tx.gasPrice, gasprice) ELSE tx.gasPrice

PaymentFits ==
    /\ AddFits(gasUsed, tx.baseGas)
    /\ MulFits(Wrapped(gasUsed + tx.baseGas), EffectivePrice)

\* handlePayment; GS013, GS011 and GS012 revert like an overflow does.
Settle ==
    /\ pc = "called"
    /\ \/ pc' = "reverted" /\ UNCHANGED payment
       \/ tx.gasPrice = 0 /\ pc' = "done" /\ UNCHANGED payment
       \/ /\ tx.gasPrice > 0 /\ PaymentFits
          /\ payment' = Wrapped(Wrapped(gasUsed + tx.baseGas) * EffectivePrice)
          /\ pc' = "done"
    /\ UNCHANGED <<contract, tx, gasprice, gasleft, cost, forwarded, gasUsed>>

GasNext == CheckGas \/ Call \/ GasRunsOut \/ Settle

GasSpec == GasInit /\ [][GasNext]_gasVars

-----------------------------------------------------------------------------
(* Properties *)

GasTypeOK ==
    /\ pc \in {"start", "checked", "called", "done", "reverted"}
    /\ contract \in Contracts /\ tx \in SignedTx /\ gasprice \in Price
    /\ gasleft \in 0..BlockGas /\ cost \in Costs \cup {Free}
    /\ forwarded \in 0..BlockGas /\ gasUsed \in 0..BlockGas
    /\ payment \in 0..(Word - 1)

Called == pc \in {"called", "done"}

\* The values of safeTxGas for which the sums in GS010 do not wrap; for some
\* of the others, it demands next to nothing.
Ordinary(s) == s < Word - 3000

\* What the call has cost beyond the 500 that GS010 reckons with.
Unreckoned == max(Spent(cost) - CodeGas, 0)

\* In a Safe the callee gets at least safeTxGas, short by no more than the
\* code and the start of the CALL cost beyond the 500 of GS010: whether there
\* is a refund or not, however little more gas than required the sender
\* provides, and also where gasleft() - 2500 wraps.  (That it is "always more
\* than safeTxGas", GnosisSafe.sol:173, fails when a CALL costs more than 500.)
ShortfallBounded ==
    Called /\ contract = "safe" /\ Ordinary(tx.safeTxGas) =>
        forwarded + Unreckoned >= tx.safeTxGas

\* When the callee has spent all it got, the 2500 kept for the events
\* (GnosisSafe.sol:167) are left but for what the call itself has cost, if
\* the code up to it has kept to the 500.
EventGasLeft ==
    Called /\ contract = "safe" /\ Ordinary(tx.safeTxGas) /\ cost.before <= CodeGas =>
        gasleft + cost.after + cost.start >= 2500

\* "to prevent that the relayer can increase the amount of gas used and
\* therefore also increase the refund" (docs/safe_tx_gas.md): the payment,
\* computed without any overflow, is bounded by what the owners signed and
\* the cost of making the call, whatever the callee does; in ether also by
\* what the relayer itself pays for gas.
RefundBounded ==
    pc = "done" /\ tx.gasPrice > 0 =>
        /\ payment = (gasUsed + tx.baseGas) * EffectivePrice
        /\ payment <= (tx.safeTxGas + Spent(cost) + tx.baseGas) * tx.gasPrice
        /\ tx.ether => payment <= (gasUsed + tx.baseGas) * gasprice
==============================================================================
