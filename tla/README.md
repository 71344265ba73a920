# Multi-signature wallet with off-chain checks: specification and proofs

The repository holds a multi-signature wallet (a fork of Gnosis Safe 1.3.0)
and a second contract, `CheckExecutor`, that executes *checks*: calls that
enough owners of a wallet signed off chain and that their check owner cashes
later, in any order. This directory specifies both in TLA+, checks the
specifications with TLC on small instances and proves most of what they promise
with TLAPS for all instances. Paths below are relative to the repository (`contracts/...`).

## 1. Inventory

### Components

| Component | State it keeps | Operations | What makes it correct |
|---|---|---|---|
| Owners (`base/OwnerManager.sol`) | circular linked list `owners`, `ownerCount`, `threshold` | `setupOwners`, `addOwnerWithThreshold`, `removeOwner`, `swapOwner`, `changeThreshold`; views `isOwner`, `getOwners` | the list is one ring whose members are the owners; the threshold can be reached; nobody is irremovable |
| Signature checking (`GnosisSafe.sol`, `common/SignatureDecoder.sol`) | `approvedHashes` | `checkSignatures`, `checkNSignatures`, `approveHash` | a hash passes exactly when a quorum of different owners confirms it |
| Safe transactions (`GnosisSafe.sol`, `base/Executor.sol`) | `nonce` | `execTransaction`, `handlePayment` | one execution per nonce, in order; failures and refunds accounted exactly |
| Check execution (`CheckExecutor.sol`) | `executedCheckNonceRegister` | `executeCheck`, `checkValidity`, `handlePaymentOfCheckExecution` | each check is used once, in any order, and paid once |
| Modules (`base/ModuleManager.sol`) | circular linked list `modules` | `setupModules`, `enableModule`, `disableModule`, `execTransactionFromModule`, `getModulesPaginated` | the list is one ring; pages list it without repetition (not without gap: finding 3); a module acts for its Safe past owners and guard |
| Guards (`base/GuardManager.sol`, `examples/guards/`) | guard slot; the guards' own flag and mapping | `setGuard`, `checkTransaction`, `checkAfterExecution` | a guard is released by every transaction it lets in |
| Deployment (`proxies/`, `GnosisSafe.setup`) | the deployed proxies | `createProxy`, `createProxyWithNonce`, `createProxyWithCallback`, `setup`, the constructor | a Safe is set up once, whole, and as its creation promised |
| Gas accounting (`GnosisSafe.sol`, `CheckExecutor.sol`, `external/GnosisSafeMath.sol`) | none; amounts within a call | GS010, the gas of the inner call, the refund | the callee gets its minimum and the events keep theirs, but for what the call itself costs; the refund is bounded |
| Check issuing (`utils/offChainMultiSign.ts`, `utils/commen.ts`) | pending promises | `checkNonceGenerator`, `executorMsgHashGenerator`, `signMsgHash`, `generateCheckMsg`, `addressSorter` | issued checks are valid, and independent of each other unless their nonces are made of the same text |
| Libraries (`libraries/`, `examples/libraries/`) | `signedMessages` (SignMessageLib), the singleton slot (Migration) | `multiSend` of both batch libraries, `signMessage`, `migrate` | a batch happens whole or not at all; a library works on its caller's storage only; what remains is what owners asked for |
| Fallback handling (`base/FallbackManager.sol`, `handler/`) | handler slot | `setFallbackHandler`, `isValidSignature`, the handler's `simulate` | a Safe confirms for another Safe only with the consent of its owners |
| Simulation (`common/StorageAccessible.sol`, `accessors/`) | none | `simulateAndRevert`, `simulate`, `requiredTxGas` | anyone may run anything in a Safe, and nothing of it remains |
| Deployment scripts (`src_multiSigWallet/main.ts`) | files with addresses; otherwise none | deploy, setup, fund, move assets to the executor, execute a check | a command ends; a transaction that loses a race does so for a known reason; the others get through |

Tests, generated types (`typechain-types`, `artifacts`), test tokens and
vendored contracts are left aside.

### How they interact

* A Safe is a proxy that delegates to a singleton; `setup` gives it owners and
  modules and may run foreign code by delegatecall while it does.
* `execTransaction` hashes the transaction with the current `nonce`, asks
  `checkSignatures`, the guard, the called contract, the payment receiver and
  the guard again. Owners, threshold, modules and guard change only by calls of
  the Safe to itself (`authorized`).
* `executeCheck` asks the wallet's `checkSignatures` for the hash of the check,
  registers the nonce, calls, and pays. The wallet knows nothing about checks.
* The off-chain script makes nonces and hashes that must agree with what the
  contracts compute, and signatures in the order that they demand.
* The commands of `main.ts` read a node, sign and send one transaction each. They
  know of each other only through the addresses in a file and the chain.
* A Safe can own another one. It confirms by its fallback handler, from messages
  that it signed through SignMessageLib or that its own owners signed or
  approved (Safes among them likewise), by a hash that it approved, or by
  calling. The handler is asked about the data of a call, not about its hash.
* A module has its Safe call or delegate without signatures and past the guard.
* Safes can share a guard, and all share the libraries they delegate to.

### What is hard

* **Control leaves the contracts** in every call, so both entry points can be
  entered again before they have ended, by the called contract, a module, a
  token or a check owner, with owners or guards changed meanwhile.
* **Reverts** take back everything since the start of a call, at any depth,
  while a failed inner call takes back only its own effects.
* **Linked lists** in storage are edited with an argument `prev` that callers
  choose freely.
* **Signatures** of four kinds, with different meanings of their bytes, are
  counted by a loop that compares neighbours only. Contract owners are asked
  anew each time, about data that stands beside the hash.
* **Arithmetic** of the compiler (0.7.6) wraps; gas rules leave a 64th behind.
* **The check issuer** awaits something that is no promise.
* **The commands** race with each other and with strangers: what they read and
  what the node estimated may no longer hold when their transaction is mined.

`PROJECT.json` lists the hazards with their lines and the properties about them.
On the chain there are no threads and no messages; a transaction is atomic for
the others, and nesting is the interleaving that matters. Off the chain, the
event loop and the pending transactions of a node are. Nothing here has timeouts
or retries, and nothing restarts: a command that fails is started again by hand.

## 2. Modules

The storage of a contract is the variables of its module; an external call that
runs to its end without leaving the contract is one action, and a call that
hands control to others is a frame on `stack` and several actions.

| Module | Models | Notes |
|---|---|---|
| `OwnerRegistry` | what OwnerManager promises | a set and a reachable quorum; also how CheckExecutor and GnosisSafe see the owners change |
| `LinkedList` | the circular lists in storage | what a ring is; extended by `OwnerManager` and `ModuleManager` |
| `OwnerManager` | `base/OwnerManager.sol` | the mapping with sentinel and zero addresses; each `require` is a conjunct that bears its error code; refines `OwnerRegistry` |
| `CheckSignatures` | `checkSignatures`, `checkNSignatures`, `approveHash` | one action per iteration of the loop |
| `CheckBook` | README, "Offchain check" | a stub per nonce, torn out in any order; promises nothing once delegatecalled code has written the register |
| `CheckExecutor` | `CheckExecutor.sol` and the wallet it asks | refines `CheckBook`, seen between transactions |
| `TransactionLog` | what the nonce promises | a log that only grows |
| `TransactionGuards` | the three example guards | operators on their storage |
| `GnosisSafe` | `execTransaction`, module transactions, own operations | extends `TransactionGuards`, uses `OwnerRegistry` and refines `TransactionLog` |
| `ModuleRegistry` | what ModuleManager promises | a set |
| `ModuleManager` | `base/ModuleManager.sol` and a client that pages | refines `ModuleRegistry` |
| `SafeLists` | the two lists of one Safe | composition of `OwnerManager` and `ModuleManager`: `setup` starts both, every other call changes one |
| `SafeDeployment` | factory, proxies, `setup`, singleton | creation and setup nest |
| `SafeNetwork` | several Safes and their modules, the libraries, the fallback handler, the simulations, shared guards | composition: every call in progress is a frame, a delegatecall a frame with its caller's address; `Parts` and `Touches` spell out what a transaction or an order of a module asks for; extends `TransactionGuards` |
| `CheckIssuer` | `utils/offChainMultiSign.ts` as tasks of an event loop | uses the reference definition `Accepts` of `CheckSignatures` to judge the signatures |
| `WalletScripts` | the commands of `src_multiSigWallet/main.ts` against a node | composition of processes, pending transactions and the contracts, with fairness |
| `GasAccounting` | GS010 to the refund | one call, all arithmetic modulo `Word` |
| `LinkedListProofs`, `OwnerManagerProofs`, `ModuleManagerProofs`, `CheckSignaturesProofs`, `CheckExecutorProofs`, `GnosisSafeProofs`, `SafeDeploymentProofs`, `SafeNetworkProofs` | lemmas and theorems | see section 4 |
| `MC...` | constants for TLC | one per component; `MCSafeLists` for both lists |

Operators bear the names of the functions they model. An operator whose comment
begins with "Mutant of" is a bug to be put in the place of the operator after
it; the specifications do not use it, and each property has one that breaks it.

### From code to state

* `owners`, `modules` in `OwnerManager` and `ModuleManager` are the Solidity
  mappings, address(0) and address(1) included. In the modules that build on
  them they are sets: this is what the refinements justify.
* `register` is the set of nonces whose entry in the mapping is true.
* A frame of `stack` has the storage at the start of the call (`before`) and,
  in `GnosisSafe`, at the start of its inner call (`inside`): a revert restores
  it. `ledger` is history, rolled back with the storage, because an execution
  that is reverted has not happened.
* A signature is what `ecrecover` or the owner contract makes of its bytes: whose
  key made it over what. The byte layout of contract signatures (GS021 to
  GS023) and whether the bytes found suit the contract are one flag, `placed`.
  What a contract owner answers to which data is the variable `endorsed`, which
  may change at any time (in `CheckExecutor` whenever control is outside);
  hash and data are independent arguments of `checkSignatures`.
* A hash is the tuple of what is hashed: hashes of different data differ. Where
  the code joins texts before it hashes them (`checkNonceGenerator`), the tuple
  is of the joined text.
* `approved` is the mapping `approvedHashes`. Between Safes in `SafeNetwork` its
  entries are made by `approveHash`; signatures and approvals of keys, and that
  a key sends the transaction itself, are the constant `Confirmed`, as keys may
  do this at any time and never take it back.
* In `SafeNetwork`, which Safes accept a hash as a message (`Accepting`) is
  computed from the innermost contract signature outwards (`Deepest`): a
  signature within a signature of the same Safe adds nothing. `by` in the log
  names the owners that confirmed a transaction; orders of modules have none.
* The checks of a field that are only passed on (`to`, `value`, `data`, the
  receiver) are left out; gas and price are zero or not, except in
  `GasAccounting`.

### Abstractions

* Code that a Safe delegatecalls acts by the Safe's functions (as MultiSend
  does); it does not write the Safe's storage in another way. A delegatecall of
  `CheckExecutor` does: it may rewrite the register, and the properties say
  what then still holds.
* During a call only accounts with code act. The payment in ether has too
  little gas to act on. The executor itself is not an owner of the wallet.
* A call costs, beside the gas it passes on, what the code before and after it
  and its own start cost (`Cost`): any amounts. The stipend of a call with value
  comes out of its start. The callee spends nothing or all it got, the two ends
  of what it can spend.
* The client of `ModuleManager` starts again when the list changes: pages read
  across a change promise nothing.
* Of the calls through a fallback handler those with an effect or an answer that
  others rely on are modelled (`SafeNetwork`); the token callbacks return
  constants and the getters read.
* The hooks of the guards do not check who calls them. Outsiders that call a
  guard directly are left out: every property of a guard would be void.
* A Safe that delegated to Migration runs another singleton, and other contracts
  are not part of the repository: they succeed or fail, and act no further. In
  particular such a Safe no longer accepts signatures, and does not act as an owner.
* A module in `SafeNetwork` is one of its parties or an account outside that
  orders what it likes of `Outside`. That an order failed is only reported, so
  it is entered in the log like a transaction that tolerates failure.
* A node accepts one transaction per account nonce, estimates on the last block
  and mines the transactions of one sender in their order. `After` keeps the
  commands to the order in which `main.ts` lists them, as its user must; without
  it, only more commands fail at once.
* The script's `await`s on values or finished promises run without other tasks
  between them that matter: after the nonce is known, nothing is shared.

## 3. Runs

All runs are exhaustive up to their bounds. `CHECK_DEADLOCK FALSE` stands where a
bound uses up what can be done (nonces of a Safe, one gas calculation, the
checks or commands of a script).

Only `WalletScripts` states fairness. A process that has been started is run by
Node.js until it exits, and a node keeps mining what it has accepted: weak
fairness of the processes' steps, taken together, and of mining, whichever sender
comes first. Together is enough, as there are finitely many steps to take. The
operator need not start anything, strangers need not act and the clock need not
move. On the chain there is no fairness: nobody is obliged to call a contract.

| Run | Module, bounds | Shows |
|---|---|---|
| `lists` | `MCSafeLists`: 4 owners beside zero, sentinel and self, lists up to 4; 4 modules, page sizes 0 to 2; symmetry of owners and of modules | every property of the two lists under all sequences of calls with all arguments: rings, threshold, views, composition of pages, no repetition, refinement of the registries |
| `signatures` | `MCCheckSignatures`: 2 keys, 1 contract, 2 hashes beside 2 data, 3 signatures, 2 approvals | soundness, agreement of the loop with a definition that compares all pairs, and that a quorum always has an acceptable packing |
| `checks` | `MCCheckExecutor`: 4 checks on 2 nonces, nesting 2, 3 uses; one is a delegatecall that may rewrite the register, one needs an approval on chain, one the word of a contract owner that may change | single use, exact register, payment, independence of order, refinement of `CheckBook` |
| `transactions` | `MCGnosisSafe`: 2 transactions, 2 nonces, nesting 2, 1 module, all guards | one run per nonce, exact nonces, refunds, guards that are released and keep transactions apart, refinement of `TransactionLog` |
| `paging` | the same with 1 owner, page sizes 1 and 2 | violation: finding 3 |
| `deployment` | `MCSafeDeployment`: 2 proxies, nesting 4 | whenever other code runs, a Safe is set up at most once, whole, as promised |
| `singleton` | the same | violation: finding 1 |
| `network` | `MCSafeNetwork`: Safe `a`, owned by a key and by Safe `b`, owns `b`; transactions of `a` that batch (one batch in another), sign, approve, migrate, change guard, handler and modules, delegate to the accessor; messages of `a` signed by the key; orders of a module; calls from outside, one simulation nested too deep; 2 nonces, 4 calls in progress | what remains in storage is what owners or modules asked for, all of it or nothing, and no call twice; consent; a guard that keeps a Safe's code but for modules; a shared guard's flag |
| `issuing` | `MCCheckIssuer`: 2 checks, 2 milliseconds, 4 parameters, 4 lists of signers | issued checks are valid; collisions only within a millisecond, and which |
| `same_millisecond` | the same | violation: finding 2 |
| `scripts` | `MCWalletScripts`: 2 deployments, setup, a funding of 3, moves of 2 and 1, checks of 2 and 1; 2 milliseconds; a stranger | every command ends; why transactions revert; progress of the nonce; checks are cashed |
| `gas` | `MCGasAccounting`: words of 24 bits, values around each boundary; calls that are free, cold, with value, to a new account | how much may be missing of the minimum and of the gas for events, bounded refund |

Why the bounds are enough to be interesting: four owners allow rings in which an
owner, its predecessor and two bystanders differ. Three signatures allow an
accepted pair with a stranger before, between or behind. Each of the two nonces
of `checks` has two checks that compete for it; one check must succeed and
others may fail, and with a nesting of two a failing outer call reverts a
successful inner one. Two nonces let a nested transaction take the next one,
and module transactions, which need no nonce, change the guard before and
within it. Four modules make three pages. Two proxies and a depth of four let a
creation run within the setup of another. In `network` the chain from a key over
`a` to `b` is the shortest in which consent is passed on, by a signed message, an
approved hash, a call or a contract signature, and as `b` in turn is an owner of `a`,
a contract signature can stand within another; `a` has two
nonces, so a batch can follow a change of guard or of modules and be reverted
within another call. Four calls in progress (`MaxDepth`, 1024 in the EVM) hold
a batch in a batch, and a simulation that reaches the limit. Two checks are the
pair that can collide; in `scripts` they share a nonce when made in one
millisecond, the moves are two to race for one nonce of the wallet, and the
funding is exactly what both moves need. Gas values lie one below, at and one
above 2500, 3000, 160500 (where the two terms of GS010 cross), what GS010
demands of round values of safeTxGas, and the limits of the transaction; the
costs are those of the Berlin rules. The proofs remove these bounds.

### Findings

1. The constructor sets the threshold of the singleton to 0 below a comment
   that says 1, so the singleton can be set up, which a test of the repository
   rules out.
2. `checkNonceGenerator` awaits `crypto.randomBytes` with a callback, which is
   not a promise, so the entropy is always empty: checks with the same fields
   (the data is not among them) made in one millisecond have one nonce, and
   executing one voids the other. So do checks whose numbers differ but read the
   same in a row, as they are joined without a separator.
3. `getModulesPaginated` calls its `next` the start of the next page, but the page
   that starts there leaves that module out. Starting from the last entry of the
   page, pages do fit together (`PagesCompose`).

What else the models brought up is written into properties that hold, or left out:

* With `gasPrice` 0 the inner call of a Safe is said to get always more than
  `safeTxGas` (`GnosisSafe.sol:173`). GS010 reckons with 500 of gas until the
  execution, but the CALL itself costs more when the account was not accessed
  before (2600), receives value (9000) or is new (25000): with the least gas that
  GS010 lets through the callee gets less. How much less says `ShortfallBounded`;
  the gas for the events shrinks likewise (`EventGasLeft`).
* `executeCheck` keeps the comment that its call gets more than `safeTxGas`
  (`CheckExecutor.sol:136-137`) without any check like GS010, and
  `gasleft() - 2500` may wrap: `ShortfallBounded` speaks of a Safe only.
* `checkSignatures` does not compare the data with the hash. Its callers pass what
  belongs together; who calls it directly gets an answer about whatever it passes
  (`QuorumSound`).
* A check can lose its acceptance because a contract owner now answers otherwise, also
  by the call of another check: `OrderIrrelevant` names this cause.
* Between its deployment and its setup by a second command, a stranger can set a
  Safe up; `RevertExplained` names the cause.
* `DebugTransactionGuard` takes nonce 0 for no record, so the first transaction of
  a Safe never ends under it (`RecordedTxEnds`).
* GS010 adds without overflow check, so for `safeTxGas` from 2^256 - 3000 to
  2^256 - 2501 it demands almost nothing (`Ordinary` in `ShortfallBounded`).
* A check that is sent before the executor has been mined runs into an address
  without code: the transaction lands and pays nothing. `ChecksCashed` is about
  an executor that exists, and `RevertExplained` names those calls (`blind`).

## 4. Theorems

Proved by TLAPS for all values of the constants that satisfy the module's
assumptions (finite sets of addresses, distinct special addresses, and so on).
Every invariant and every action property that a passing run checks is proved.

Two means that recur. The induction theorems of the library take an operator for
a parameter, which the provers cannot instantiate: `LeastNatural` (or
`NaturalInduction`) says it of sets of naturals instead, where a set that
violates it would have a least element outside. A function that a definition
builds by recursion (the walks over lists, the levels of a transaction, the sum
over a set) is the CHOSEN solution of its recursive equation: a lemma shows that
there is a solution, and everything else follows from the equation.

The theorems about `WalletScripts`, `CheckIssuer` and `GasAccounting` stand at the
end of the proof module of the component they work with. It extends both
specifications, whose constants and variables are disjoint; that is why those
three name theirs `ScriptSpec`, `IssuerSpec` and `GasSpec`. `ModuleManager` names its
`ModuleSpec` for the same reason: `SafeLists` extends it together with `OwnerManager`.

**LinkedList** (`LinkedListProofs`). That the links form a ring is not inductive as
a statement about reachability; the ring is therefore named by a sequence `p`
of its members (`RingOrder`): `p[0]` is the sentinel, all places differ, each links
to the next and the last to the sentinel, and only members have an entry.
`RingInsert`, `RingDelete` and `RingReplace` construct the sequence after an
operation, `RingPredecessor` shows that a `prev` that passes the check of the
contract is the place before, `RingMembers` equates the length of the ring with
the number of members. `WalkExists` and `RingWalk` say where the loop of a
view is after `i` rounds.

**OwnerManager** (`OwnerManagerProofs`). `TypeCorrect`, `RingCorrect`,
`ThresholdCorrect`, `NoneIrremovable`, `GetOwnersCorrect`, `ImplementsRegistry`. The
invariant `IInv` is types, ring and threshold; the bounds of the threshold follow
from the length of the ring, that nobody is irremovable from the place before an
owner's, what `getOwners` returns from the walk along the ring, and every call is
the operation of the registry of the same name.

**ModuleManager** (`ModuleManagerProofs`). `RingCorrect` and `ImplementsRegistry`
(`ModuleSetSpec`), by
the same lemmas; `WholePageCorrect` and `PagesFit` from the walk; `DistinctPages`
(`PagesDistinct`) by `ReaderInv`: what the client has collected are different places
of the ring, all of which it has passed. `ListsCompose` says that `SafeLists`
behaves as `OwnerManager` and as `ModuleManager` specify, so what is proved of each
of them holds of a Safe with both lists.

**CheckExecutor** (`CheckExecutorProofs`). `TypeCorrect`, `SingleUse`, `Register`,
`Settlement`, `AnyOrder`, `ImplementsBook`. None of the properties is inductive: a
revert brings back a storage that is not the current one. The invariant
`Good(s, st, n)` speaks of a storage `s` under the `n` outermost calls in progress:
its register is what has been executed and what these calls have claimed, no
nonce is claimed twice, what has been executed is paid or about to be. `IInv` says
so of the current storage under all calls, and of the storage each call
returns to under those outside it (`Resumable`), so returning and reverting
preserve it. For `ImplementsBook`, `Grown` adds that no storage in progress holds
less than the one the outermost call started from.

**GnosisSafe** (`GnosisSafeProofs`). `TypeCorrect`, `OneExecution`, `ExactNonces`,
`Settlement`, `GuardsFree`, `RecordsHold`, `ImplementsLog`. The same shape: `Good` says
that the nonces used are those run and those in progress, that runs are paid or
about to be, and that the guards hold what the calls in progress put there. A
frame keeps two storages, from before the call and from before its inner
call; `Entry` ties them. For `ImplementsLog`, `Kept` says that a storage in progress
has left alone the runs that were settled before the outermost call.

**SafeNetwork** (`SafeNetworkProofs`). `TypeCorrect`, `AskedEffects`, `OwnersConsent`,
`GuardKeepsCode`, `GuardHeld`, `AllOrNothingHolds`, for any number of Safes that
own each other and any nesting. Between transactions every signed message, approved hash and migration
must be found in a transaction, or in an order of a module, that has ended well;
during one it is still being made.
`Claims(st, n, m, w)` therefore speaks of a world `w` under `n` calls, of which the
first `m` count: what was signed and migrated in `w`, the changes of guards and the
consent behind each entry of the log is asked for by a transaction in the log of
`w` or by one that is *open*, whose call is made and has not failed (`Wants`); for
what a strict guard keeps out, by an order of a module (`Demands`).
`IInv` says so of the world now, and of the world each call returns to without the
call that it itself makes, for a call that fails is not open when the worlds
are brought back. Nothing is claimed above a simulation (`Simulated`): it reverts,
and the claims of the world before it come back with that world. Why a Safe acts is
known from `Commissioned`: every call in progress on the storage of a Safe works
for a transaction of that Safe and has calls to make that are parts of it
(`Deep`), and one call more goes one level deeper (`OneDeeper`); behind a strict guard it is the
transaction itself or a MultiSendCallOnly that it delegates to, or the order of a module. For `OwnersConsent`,
`AcceptingAgree` says that the Safes whose contract signatures count are among
those that agree: both are iterations of a map on sets of Safes (`Deepest`), which
`DeepestWithin` compares step by step, as every signed message and approved
hash was asked for. `More` and `ClaimsMove` carry the claims from one list of calls to the next: what was asked
for stays asked for, and what is new is explained. For `GuardHeld` a second
invariant, `Held`, says of each of these worlds that its flag is up exactly if
one of the calls outside it holds the guard.

`AllOrNothing` is the converse of `NothingUnasked`, and it counts. That each item
of a batch is done once cannot be seen in any one call, as calls of other Safes,
simulations and reverts come between. The third invariant, `Accounted`, says
that every call in progress has a `Plan` (chosen when the call begins; it exists,
and is no variable): how many calls of other contracts each Safe may and must
have made by its end beyond those that the log asks for (`Excess` at `most`, at
`least`), and what must be signed and migrated by then (`pledge`). `Covered`
keeps the books: what has been done, together with what the call still has to do
(`Coming`, `Certain`, `Pending`), meets its plan. A delegated call takes over a
share of its caller's plan and gives it back when it returns (`Entrusts`,
`GivesBack`). Any other call has a plan of its own, by which it leaves the
accounts as they were (`StartsAlone`, `Resumes`): a transaction that succeeds is
entered in the log with just what it has done (`Ends`). A call that has failed
owes nothing, since its revert brings back the world it started from, in which
the accounts of its caller were in order. A call of the accessor never owes
anything and still keeps the upper limit, which is why `AllOrNothing` allows a
range where a transaction delegates to it. No transaction is entered twice: a
nonce in progress has no entry and is below the current one (`OpenNonces`). The
lemmas on sums (`SumElement`, `SumAgrees`, `SumTail`) carry this from sets of
entries and lists of calls to numbers.

**SafeDeployment** (`SafeDeploymentProofs`). `SingleSetup`, `PromiseKept`, `NeverHalf`.
Every Safe is `Whole` (untouched or set up once with all that belongs to it) and
`AsPromised`, in the current storage and in every storage that a revert can
bring back. The storage from before the initializer of a new proxy breaks the
promise; `Recoverable` therefore leaves it out: the factory reverts with its
initializer, so that one never comes back.

**WalletScripts** (in `SafeDeploymentProofs`). `RevertsHaveCauses`
(`RevertExplained`). `ScriptInv` ties what a process knows to the chain: what its
transaction needs held when the node estimated it, and what has changed since
then is a nonce that others used, funds that others moved, or a check that was
cashed, each by a transaction that was mined.

**CheckSignatures** (`CheckSignaturesProofs`). `TypeCorrect`, `Soundness`
(`QuorumSound`), `Decision` (`LoopDecides`), `Presentable` (`QuorumPresentable`).
`LoopInv` says that the loop has counted `i` different owners, all confirming the
hash and none above `lastOwner`; the comparison of neighbours then makes the next
one new. `CountedConfirms` goes through the four kinds of signatures. For
`Decision`, `ScanInv` says that the signatures behind the loop are those of an
accepted prefix, and that a rejection names the first that is not. For
`Presentable`, `SortedEnumeration` lists a finite set of owners in ascending
order.

**CheckIssuer** (in `CheckSignaturesProofs`). `Independence`
(`DistinctIndependent`) and `Packing` (`IssuedAccepted`). `IssuerInv` follows a
promise from its nonce to its signatures; that the packing is in the
contract's order is `SortedEnumeration` again, as sorting chooses the one
arrangement that ascends.

**GasAccounting** (in `GnosisSafeProofs`). `PaymentTypeCorrect`, `Shortfall`
(`ShortfallBounded`), `EventGas`, `Refund`. For every width of a word that exceeds
64 times the gas of a transaction, and whatever a call costs. `RequiredCovers` shows that what GS010 demands of an ordinary value
neither wraps nor falls short, `SixtyThird` that a 63rd more pays for the 64th
that stays behind, also of an amount that falls short, `AddExact` and `MulExact` that the checks of GnosisSafeMath
exclude overflow. `PaymentInv` adds to the properties what the check has established
at the moment of the call and the bound of the gas that is refunded.

Only model-checked: the liveness of `WalletScripts` (`RunsEnd`, `NonceProgress`,
`ChecksCashed`), which is out of the prover's reach.

## 5. Not modelled

* `CreateCall` is a create opcode with a check of its result, `GnosisSafeStorage`
  lays out storage, `EtherPaymentFallback` and `Enum` have no state, and
  `SecuredTokenTransfer` is the payment that succeeds or fails in the models.
* Token callbacks and getters of the handlers, `getStorageAt`, `getChainId`,
  `encodeTransactionData`: they read, or return constants.
* The byte layout of transactions, batches and signatures: the assembly that
  cuts them up is replaced by what it yields.
* Older copies of the commands (`src_multiSigWallet/deploy`, `utils.ts`), the
  hardhat tasks (`src/tasks`), the deploy scripts for hardhat (`src/deploy`) and
  the helpers of the tests (`src/utils/execution.ts`): linear commands without
  state of their own.
* Generated types (`typechain-types`) make up nearly all of the TypeScript in the
  repository. They hold no logic of the system, so the models cover a small share
  of its lines and nearly all of those of the contracts that keep state.

## 6. What may follow

1. `SafeNetwork` as a refinement of `GnosisSafe`, one Safe at a time.
2. `AllOrNothing` for each call of SimulateTxAccessor by itself: what is inside one
   that did not fail has been done whole, while the property allows any part.
