----------------------------- MODULE SafeNetwork -----------------------------
(***************************************************************************)
(* Several Safes that own each other, the libraries they delegate to       *)
(* (contracts/libraries, contracts/examples/libraries), the simulation of  *)
(* calls (common/StorageAccessible.sol, accessors/SimulateTxAccessor.sol), *)
(* the handler behind their fallback (handler/) and the guards they share. *)
(*                                                                         *)
(* A call in progress is a frame with the calls that it still has to make  *)
(* and the storage of all contracts from before it, which comes back when  *)
(* it reverts.  A delegatecall keeps the caller's address: the frame runs  *)
(* the code of one contract on the storage of another.                     *)
(***************************************************************************)
EXTENDS Integers, Sequences, FiniteSets, FiniteSetsExt, TransactionGuards

CONSTANTS
    Item,           \* calls, with those that they contain
    Safe,           \* addresses of Safes
    Key,            \* addresses with a private key
    Owners,         \* Owners[s]: keys and Safes (changes are in OwnerManager)
    Threshold,
    Confirmed,      \* <<k, h>>: the key k signs or approves the hash h, or
                    \* sends the transaction itself
    Outside,        \* bound: the calls that come from outside
    InitialGuards,  \* bound
    InitialModules, \* bound: which modules setup has enabled in each Safe
    MaxNonce,       \* bound: transactions of each Safe, and orders of modules
    MaxDepth        \* calls in progress; the EVM allows 1024

Library == {"MultiSend", "MultiSendCallOnly", "SignMessageLib", "Migration", "SimulateTxAccessor"}

Party == Safe \cup Library \cup {"handler"}

\* Whoever calls a contract: one of these contracts, or somebody else.
Caller == Party \cup {"outside"}

\* A call: [to, operation, data]; the only field of data names the function
\* and holds its arguments.
Calls(item, function) == function \in DOMAIN item.data
Send(to, data) == [to |-> to, operation |-> "call", data |-> data]

\* A transaction, tolerant standing for a safeTxGas or a gasPrice other than
\* 0, and what owners sign:
Tx == [item : Item, tolerant : BOOLEAN]
txHash(s, tx, n) == [safe |-> s, tx |-> tx, nonce |-> n]
messageHash(s, message) == [safe |-> s, message |-> message]

ASSUME NetworkAssumption ==
    /\ IsFiniteSet(Safe) /\ IsFiniteSet(Key) /\ Safe \cap Key = {}
    /\ (Safe \cup Key) \cap (Library \cup {"handler", "outside"}) = {}
    /\ \A s \in Safe : Owners[s] \subseteq Safe \cup Key /\ Threshold[s] \in 1..Cardinality(Owners[s])
    /\ \A c \in Confirmed : c[1] \in Key
    /\ \A item \in Item :
          /\ item.operation \in {"call", "delegatecall"}
          /\ Calls(item, "multiSend") => item.data.multiSend \in Seq(Item)
          /\ Calls(item, "simulate") => item.data.simulate \in Item
          /\ Calls(item, "simulateAndRevert") => item.data.simulateAndRevert \in Item
          /\ Calls(item, "simulateByHandler") =>
                Send(item.to, [simulateAndRevert |-> item.data.simulateByHandler]) \in Item
          /\ Calls(item, "execTransaction") => item.data.execTransaction \in Tx
          /\ Calls(item, "execTransactionFromModule") => item.data.execTransactionFromModule \in Item
          /\ Calls(item, "enableModule") => item.data.enableModule \in Caller
          /\ Calls(item, "disableModule") => item.data.disableModule \in Caller
          /\ Calls(item, "setGuard") => item.data.setGuard \in Guard
          /\ Calls(item, "setFallbackHandler") => item.data.setFallbackHandler \in BOOLEAN
    /\ Outside \subseteq {item \in Item : item.operation = "call"}
    /\ InitialGuards \subseteq Guard \ {"debug"}
    /\ InitialModules \subseteq [Safe -> SUBSET Caller]
    /\ MaxNonce \in Nat /\ MaxDepth \in Nat \ {0}

VARIABLES
    world,          \* the storage of all contracts
    stack           \* calls in progress, outermost first

vars == <<world, stack>>

Init ==
    /\ \E g \in [Safe -> InitialGuards], h \in [Safe -> BOOLEAN], m \in InitialModules :
          world = [nonce |-> [s \in Safe |-> 0],
                   modules |-> m,
                   approved |-> {},     \* <<safe, owner, hash>>: approvedHashes
                   guard |-> g,
                   guards |-> FreshGuards,
                   handler |-> h,       \* CompatibilityFallbackHandler is set
                   signed |-> {},       \* <<address, hash>>: signedMessages
                   migrated |-> {},     \* the addresses with a new singleton
                   \* history: the calls of other contracts, the number of
                   \* orders from modules, the transactions and the orders
                   touched |-> [s \in Safe |-> 0],
                   ordered |-> [s \in Safe |-> 0],
                   log |-> {}]
    /\ stack = <<>>

Top == stack[Len(stack)]
Running == stack # <<>> /\ ~Top.failed /\ Top.todo # <<>>
Ending(kinds) == stack # <<>> /\ Top.kind \in kinds /\ (Top.failed \/ Top.todo = <<>>)

\* msg.sender of the next call, the address whose storage its code works on,
\* and the stack from which the caller goes on.
sender == IF stack = <<>> THEN "outside" ELSE Top.self
self(item) == IF item.operation = "call" THEN item.to ELSE sender
Continued == IF stack = <<>> THEN <<>> ELSE [stack EXCEPT ![Len(stack)].todo = Tail(@)]

Fail ==
    /\ stack' = IF stack = <<>> THEN <<>> ELSE [Continued EXCEPT ![Len(stack)].failed = TRUE]
    /\ UNCHANGED world

Do(effect) == world' = effect /\ stack' = Continued

\* Only the frame of a transaction or of a module's order has an entry for
\* the log, and only that of a transaction a guard.
Frame(kind, address, todo) ==
    [kind |-> kind, self |-> address, todo |-> todo, failed |-> FALSE, before |-> world,
     entry |-> <<>>, guard |-> "none"]

Enter(frame) == stack' = Append(Continued, frame)

Rest == SubSeq(stack, 1, Len(stack) - 1)

Return == stack' = Rest /\ UNCHANGED world

\* The frame reverts, and its caller learns of it.
RevertTop ==
    /\ world' = Top.before
    /\ stack' = IF Rest = <<>> THEN <<>> ELSE [Rest EXCEPT ![Len(Rest)].failed = TRUE]

-----------------------------------------------------------------------------
(* Libraries *)

\* Mutant of multiSend: the check of the own address is dropped.
multiSendAnywhere(item) ==
    /\ item.to = "MultiSend" /\ Calls(item, "multiSend")
    /\ Enter(Frame("batch", self(item), item.data.multiSend)) /\ UNCHANGED world

multiSend(item) ==
    /\ item.to = "MultiSend" /\ Calls(item, "multiSend")
    /\ IF self(item) # "MultiSend"
       THEN Enter(Frame("batch", self(item), item.data.multiSend)) /\ UNCHANGED world
       ELSE Fail

\* This one may be called directly.
multiSendCallOnly(item) ==
    /\ item.to = "MultiSendCallOnly" /\ Calls(item, "multiSend")
    /\ Enter(Frame("callOnly", self(item), item.data.multiSend)) /\ UNCHANGED world

\* Mutant of Refused: the case of a delegatecall is taken for a call.
RefusesNothing(item) == FALSE

\* Operation 1 in MultiSendCallOnly.
Refused(item) == Top.kind = "callOnly" /\ item.operation = "delegatecall"

TooDeep == Len(stack) = MaxDepth

\* Only a Safe has a domainSeparator to ask for.
signMessage(item) ==
    /\ item.to = "SignMessageLib" /\ Calls(item, "signMessage")
    /\ IF self(item) \in Safe
       THEN Do([world EXCEPT !.signed = @ \cup {<<self(item), item.data.signMessage>>}])
       ELSE Fail

migrate(item) ==
    /\ item.to = "Migration" /\ Calls(item, "migrate")
    /\ IF self(item) # "Migration"
       THEN Do([world EXCEPT !.migrated = @ \cup {self(item)}])
       ELSE Fail

\* SimulateTxAccessor
simulate(item) ==
    /\ item.to = "SimulateTxAccessor" /\ Calls(item, "simulate")
    /\ IF self(item) # "SimulateTxAccessor"
       THEN Enter(Frame("accessor", self(item), <<item.data.simulate>>)) /\ UNCHANGED world
       ELSE Fail

\* Mutant of BatchEnds: the batch goes on without the item that failed.
BatchSkips == Ending({"batch", "callOnly"}) /\ Return

\* multiSend reverts as soon as one item fails.
BatchEnds ==
    /\ Ending({"batch", "callOnly"})
    /\ IF Top.failed THEN RevertTop ELSE Return

\* The failure of what is simulated is only reported.
AccessorEnds == Ending({"accessor"}) /\ Return

\* CompatibilityFallbackHandler.simulate returns or reverts with what the
\* simulation reported.
HandlerEnds == Ending({"handler"}) /\ (Return \/ RevertTop)

-----------------------------------------------------------------------------
(* The Safe *)

\* A call that reaches the code in src/.
ToSafe(item) == item.to \in Safe \ world.migrated /\ item.operation = "call"

\* StorageAccessible.simulateAndRevert delegates, requiredTxGas calls or
\* delegates; anyone may call either.
simulateAndRevert(item) ==
    /\ ToSafe(item) /\ Calls(item, "simulateAndRevert")
    /\ Enter(Frame("simulation", item.to, <<item.data.simulateAndRevert>>)) /\ UNCHANGED world

\* The function of the handler with the same arguments: the Safe's fallback
\* calls the handler, which calls the Safe back.  Without a handler the
\* fallback returns.
simulateByHandler(item) ==
    /\ ToSafe(item) /\ Calls(item, "simulateByHandler")
    /\ IF world.handler[item.to]
       THEN /\ Enter(Frame("handler", "handler",
                           <<Send(item.to, [simulateAndRevert |-> item.data.simulateByHandler])>>))
            /\ UNCHANGED world
       ELSE Do(world)

SimulationEnds == Ending({"simulation"}) /\ RevertTop

\* The owners whose signature for the hash h the Safe s accepts:
\* signatures and approvals of keys, approvals of Safes, and Safes that
\* accept a contract signature.
Confirming(s, h, accepting) ==
    {o \in Owners[s] : <<o, h>> \in Confirmed \/ <<s, o, h>> \in world.approved \/ o \in accepting}

\* What `next` makes of no Safes when it is applied as often as there are
\* Safes, which is as deep as contract signatures in each other can matter.
Deepest(next) ==
    LET safes[d \in 0..Cardinality(Safe)] == IF d = 0 THEN {} ELSE next[safes[d - 1]]
    IN  safes[Cardinality(Safe)]

\* Mutant of Accepting: owners sign the hash itself, not a message of their
\* Safe.
AcceptingBareHash(h) ==
    Deepest([accepting \in SUBSET Safe |->
        {o \in Safe \ world.migrated :
            /\ world.handler[o]
            /\ \/ <<o, h>> \in world.signed
               \/ Cardinality(Confirming(o, h, accepting)) >= Threshold[o]}])

\* isValidSignature, behind the fallback, for the data of h: of an empty
\* signature when the Safe has signed it, or of signatures for the message
\* by enough of its owners, where contract signatures are for the same data.
Accepting(h) ==
    Deepest([accepting \in SUBSET Safe |->
        {o \in Safe \ world.migrated :
            /\ world.handler[o]
            /\ \/ <<o, h>> \in world.signed
               \/ Cardinality(Confirming(o, messageHash(o, h), accepting)) >= Threshold[o]}])

\* An approval that is not there yet: of the owner that makes the call.
Approvers(s, h) == {o \in Owners[s] : o = sender} \cup Confirming(s, h, Accepting(h))

execTransaction(item) ==
    /\ ToSafe(item) /\ Calls(item, "execTransaction")
    /\ LET s == item.to
           tx == item.data.execTransaction
           n == world.nonce[s]
           by == Approvers(s, txHash(s, tx, n))
           g == world.guard[s]
       IN  IF /\ Cardinality(by) >= Threshold[s] /\ n < MaxNonce
              /\ Allows(g, world.guards, tx.item)
           THEN /\ Enter([Frame("exec", s, <<tx.item>>) EXCEPT
                             !.entry = [safe |-> s, tx |-> tx, nonce |-> n, by |-> by,
                                        module |-> FALSE, ok |-> FALSE],
                             !.guard = g])
                /\ world' = [world EXCEPT !.nonce[s] = n + 1,
                                          !.guards = Entered(g, @, tx.item, n)]
           ELSE Fail

\* No signatures and no guard: a module's word is enough.  Whether the call
\* failed is only reported.  (Its orders are numbered to tell them apart.)
execTransactionFromModule(item) ==
    /\ ToSafe(item) /\ Calls(item, "execTransactionFromModule")
    /\ LET s == item.to
           tx == [item |-> item.data.execTransactionFromModule, tolerant |-> TRUE]
           n == world.ordered[s]
       IN  IF sender \in world.modules[s] /\ n < MaxNonce
           THEN /\ Enter([Frame("exec", s, <<tx.item>>) EXCEPT
                             !.entry = [safe |-> s, tx |-> tx, nonce |-> n, by |-> {},
                                        module |-> TRUE, ok |-> FALSE]])
                /\ world' = [world EXCEPT !.ordered[s] = n + 1]
           ELSE Fail

\* GS013, and checkAfterExecution, which this set of guards always passes.
ExecEnds ==
    /\ Ending({"exec"})
    /\ IF Top.failed /\ ~Top.entry.tx.tolerant
       THEN RevertTop
       ELSE /\ world' = [world EXCEPT
                            !.guards = Left(Top.guard, @, Top.entry.tx.item, Top.entry.nonce),
                            !.log = @ \cup {[Top.entry EXCEPT !.ok = ~Top.failed]}]
            /\ stack' = Rest

\* GS030
approveHash(item) ==
    /\ ToSafe(item) /\ Calls(item, "approveHash")
    /\ IF sender \in Owners[item.to]
       THEN Do([world EXCEPT !.approved = @ \cup {<<item.to, sender, item.data.approveHash>>}])
       ELSE Fail

\* The functions marked `authorized`.  GS102 and GS103 refuse a module that
\* is enabled already, or not at all.
enableModule(item) ==
    /\ ToSafe(item) /\ Calls(item, "enableModule")
    /\ IF sender = item.to /\ item.data.enableModule \notin world.modules[item.to]
       THEN Do([world EXCEPT !.modules[item.to] = @ \cup {item.data.enableModule}])
       ELSE Fail

disableModule(item) ==
    /\ ToSafe(item) /\ Calls(item, "disableModule")
    /\ IF sender = item.to /\ item.data.disableModule \in world.modules[item.to]
       THEN Do([world EXCEPT !.modules[item.to] = @ \ {item.data.disableModule}])
       ELSE Fail

setGuard(item) ==
    /\ ToSafe(item) /\ Calls(item, "setGuard")
    /\ IF sender = item.to
       THEN Do([world EXCEPT !.guard[item.to] = item.data.setGuard])
       ELSE Fail

setFallbackHandler(item) ==
    /\ ToSafe(item) /\ Calls(item, "setFallbackHandler")
    /\ IF sender = item.to
       THEN Do([world EXCEPT !.handler[item.to] = item.data.setFallbackHandler])
       ELSE Fail

-----------------------------------------------------------------------------

\* Code that is not in src/, the new singleton of a migrated Safe included:
\* it fails or succeeds, and what it does is its own affair.
Foreign(item) ==
    /\ item.to \notin Library /\ (item.to \in Safe => item.to \in world.migrated)
    /\ \/ Do(IF sender \in Safe /\ item.to \notin Safe THEN [world EXCEPT !.touched[sender] = @ + 1] ELSE world)
       \/ Fail

Perform(item) ==
    \/ multiSend(item)
    \/ multiSendCallOnly(item)
    \/ signMessage(item)
    \/ migrate(item)
    \/ simulate(item)
    \/ simulateAndRevert(item)
    \/ simulateByHandler(item)
    \/ execTransaction(item)
    \/ execTransactionFromModule(item)
    \/ approveHash(item)
    \/ enableModule(item)
    \/ disableModule(item)
    \/ setGuard(item)
    \/ setFallbackHandler(item)
    \/ Foreign(item)

NextItem ==
    /\ Running
    /\ IF TooDeep \/ Refused(Head(Top.todo)) THEN Fail ELSE Perform(Head(Top.todo))

\* Gas runs out.
OutOfGas == stack # <<>> /\ RevertTop

Next ==
    \/ stack = <<>> /\ \E item \in Outside : Perform(item)
    \/ NextItem
    \/ BatchEnds
    \/ AccessorEnds
    \/ HandlerEnds
    \/ SimulationEnds
    \/ ExecEnds
    \/ OutOfGas

Spec == Init /\ [][Next]_vars

-----------------------------------------------------------------------------
(* Properties *)

Entry ==
    [safe : Safe, tx : Tx, nonce : Nat, by : SUBSET (Safe \cup Key), module : BOOLEAN, ok : BOOLEAN]

World ==
    [nonce : [Safe -> Nat], modules : [Safe -> SUBSET Caller],
     approved : SUBSET (Safe \X Safe \X {item.data.approveHash : item \in {i \in Item : Calls(i, "approveHash")}}),
     guard : [Safe -> Guard],
     guards : [active : BOOLEAN, txNonces : SUBSET (Item \X Nat)],
     handler : [Safe -> BOOLEAN],
     signed : SUBSET (Safe \X {item.data.signMessage : item \in {i \in Item : Calls(i, "signMessage")}}),
     migrated : SUBSET Safe, touched : [Safe -> Nat], ordered : [Safe -> Nat], log : SUBSET Entry]

Call ==
    [kind : {"batch", "callOnly", "accessor", "handler", "simulation", "exec"}, self : Party,
     todo : Seq(Item), failed : BOOLEAN, before : World, entry : Entry \cup {<<>>}, guard : Guard]

\* In particular the code of the libraries never works on their own storage.
TypeOK == world \in World /\ stack \in Seq(Call) /\ Len(stack) <= MaxDepth

\* The calls that who delegates item has a library make in its name.
Inside(item) ==
    LET Runs(to, function) == item.operation = "delegatecall" /\ item.to \in to /\ Calls(item, function)
    IN  CASE Runs({"MultiSend", "MultiSendCallOnly"}, "multiSend") -> item.data.multiSend
          [] Runs({"SimulateTxAccessor"}, "simulate") -> <<item.data.simulate>>
          [] OTHER -> <<>>

\* Those of them whose failure fails the item.
Binding(item) == IF item.to = "SimulateTxAccessor" THEN <<>> ELSE Inside(item)

All == [item \in Item |-> Inside(item)]
Sure == [item \in Item |-> Binding(item)]

\* An item with the calls inside it, those inside them and so on, at d levels.
PartsAt(inside) ==
    LET parts[d \in 0..MaxDepth] ==
            [item \in Item |->
                {item} \cup IF d = 0 THEN {} ELSE UNION {parts[d - 1][inside[item][i]] : i \in DOMAIN inside[item]}]
    IN  parts

\* How many of them call a contract that is neither a Safe nor a library.
TouchesAt(inside) ==
    LET touches[d \in 0..MaxDepth] ==
            [item \in Item |->
                (IF item.to \in Library \cup Safe THEN 0 ELSE 1)
                + IF d = 0 THEN 0 ELSE SumFunction([i \in DOMAIN inside[item] |-> touches[d - 1][inside[item][i]]])]
    IN  touches

\* What a transaction, or an order of a module, asks its Safe to do.
Parts(inside, tx) == PartsAt(inside)[MaxDepth][tx.item]
Touches(inside, tx) == TouchesAt(inside)[MaxDepth][tx.item]

Done(s) == {e \in world.log : e.safe = s /\ e.ok}

\* The calls of a function at an address that owners or modules of s asked
\* for.
Asked(inside, s, to, operation, function) ==
    {item \in UNION {Parts(inside, e.tx) : e \in Done(s)} :
        item.to = to /\ item.operation = operation /\ Calls(item, function)}

\* Those that modules asked for.
Ordered(s, to, operation, function) ==
    {item \in UNION {Parts(All, e.tx) : e \in {f \in Done(s) : f.module}} :
        item.to = to /\ item.operation = operation /\ Calls(item, function)}

AskedToSign(inside, s) == Asked(inside, s, "SignMessageLib", "delegatecall", "signMessage")
AskedToMigrate(inside, s) == Asked(inside, s, "Migration", "delegatecall", "migrate")
AskedTouches(inside, s) == SumFunction([e \in Done(s) |-> Touches(inside, e.tx)])

\* Between transactions the storage of a Safe holds nothing but what its
\* owners asked for in transactions that succeeded, or its modules, and that
\* of a library nothing: of a simulation, whoever ran it and whatever it
\* ran, nothing remains, and of what fails neither.
NothingUnasked ==
    stack = <<>> =>
        /\ \A c \in world.signed : \E item \in AskedToSign(All, c[1]) : item.data.signMessage = c[2]
        /\ \A c \in world.approved :
              \E item \in Asked(All, c[2], c[1], "call", "approveHash") : item.data.approveHash = c[3]
        /\ \A s \in world.migrated : AskedToMigrate(All, s) # {}

\* What they asked for has been done, of a batch all or nothing and no call
\* twice.  Only what a transaction delegates to SimulateTxAccessor may or may
\* not have been: the transaction succeeds without what failed inside.
AllOrNothing ==
    stack = <<>> =>
        \A s \in Safe :
            /\ \A item \in AskedToSign(Sure, s) : <<s, item.data.signMessage>> \in world.signed
            /\ AskedToMigrate(Sure, s) # {} => s \in world.migrated
            /\ world.touched[s] \in AskedTouches(Sure, s)..AskedTouches(All, s)

\* The Safe o asked the Safe s to approve the hash h.
AskedToApprove(o, s, h) ==
    \E item \in Asked(All, o, s, "call", "approveHash") : item.data.approveHash = h

\* The Safes that have agreed to h as a message: their owners or modules had
\* them sign it, or enough of their owners signed the message, approved it,
\* or have agreed to h in this way themselves.
Agreeing(h) ==
    Deepest([agreeing \in SUBSET Safe |->
        {o \in Safe :
            \/ \E item \in AskedToSign(All, o) : item.data.signMessage = h
            \/ Cardinality({p \in Owners[o] :
                   \/ <<p, messageHash(o, h)>> \in Confirmed
                   \/ p \in Safe /\ AskedToApprove(p, o, messageHash(o, h))
                   \/ p \in agreeing}) >= Threshold[o]}])

\* A Safe acts as the owner of another one only with the consent of its own
\* owners (or modules): they agreed to the message, or had the Safe approve
\* the hash or make the call.  Calls that strangers simulate in its name
\* leave no trace.
ConsentOnly ==
    stack = <<>> =>
        \A e \in world.log : \A o \in e.by \cap Safe :
            LET h == txHash(e.safe, e.tx, e.nonce)
            IN  \/ o \in Agreeing(h)
                \/ AskedToApprove(o, e.safe, h)
                \/ \E item \in Asked(All, o, e.safe, "call", "execTransaction") :
                      item.data.execTransaction = e.tx

\* A Safe whose DelegateCallTransactionGuard allows MultiSendCallOnly (or a
\* contract that is none of the libraries), and that has not been asked to
\* set another one, changes its code and signs messages only at the order of
\* its modules, which no guard sees, however its owners pack their calls.
GuardedSafeKeepsCode ==
    stack = <<>> /\ AllowedTarget \notin Library \ {"MultiSendCallOnly"} =>
        \A s \in Safe :
            world.guard[s] = "noDelegatecall" /\ Asked(All, s, s, "call", "setGuard") = {} =>
                /\ s \in world.migrated => Ordered(s, "Migration", "delegatecall", "migrate") # {}
                /\ \A c \in world.signed : c[1] = s =>
                      \E item \in Ordered(s, "SignMessageLib", "delegatecall", "signMessage") :
                          item.data.signMessage = c[2]

\* The flag of a ReentrancyTransactionGuard that Safes share is up exactly
\* while one transaction that it lets in is under way, of whichever Safe,
\* and also when guards change or simulations and reverts intervene: no
\* Safe finds it up once the others have ended.
SharedGuardHeld ==
    LET held == {i \in DOMAIN stack : stack[i].guard = "reentrancy"}
    IN  Cardinality(held) = IF world.guards.active THEN 1 ELSE 0
=============================================================================
