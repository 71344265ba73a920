--------------------------- MODULE SafeDeployment ---------------------------
(***************************************************************************)
(* How Safes come into being: contracts/proxies/GnosisSafeProxyFactory.sol *)
(* creates proxies of the singleton and calls their initializer, setup of  *)
(* contracts/GnosisSafe.sol gives a Safe its owners and modules.           *)
(*                                                                         *)
(* Both hand control to foreign code before they end: setup to its         *)
(* delegatecall and its payment, the factory to the initializer and the    *)
(* callback.  That code may create proxies and set up Safes itself.        *)
(***************************************************************************)
EXTENDS Integers, Sequences, FiniteSets

CONSTANTS
    Account,        \* owners
    Singleton,      \* the deployed GnosisSafe
    Setup,          \* arguments of setup that callers use
    Salt,           \* values of saltNonce
    None,           \* the empty initializer
    Other,          \* an initializer that calls something else than setup
    Configs,        \* bound: owners and thresholds that Safes change to
    MaxProxies,     \* bound: proxies in existence
    MaxDepth        \* bound: frames on the stack

\* to: setup delegatecalls; payment: setup pays, "token" lets a token act.
SetupArgs ==
    [owners : SUBSET Account, threshold : 0..(Cardinality(Account) + 1),
     to : BOOLEAN, payment : {"none", "ether", "token"}]

ASSUME DeploymentAssumption ==
    /\ IsFiniteSet(Account)
    /\ Setup \subseteq SetupArgs
    /\ Configs \subseteq [owners : SUBSET Account, threshold : 1..Cardinality(Account)]
    /\ None \notin Setup /\ Other \notin Setup /\ None # Other
    /\ MaxProxies \in Nat /\ MaxDepth \in Nat

Initializer == Setup \cup {None, Other}

\* Addresses of proxies: that of a CREATE follows from the count of the
\* factory, that of a CREATE2 from the initializer and the salt, hashed
\* with the callback in createProxyWithCallback.
CreateAddress == [created : 1..MaxProxies]
Create2Address == [initializer : Initializer, salt : Salt, withCallback : BOOLEAN]

VARIABLES
    safes,          \* the state of every deployed Safe, by address
    created,        \* the factory's count of CREATEs
    stack           \* calls in progress, outermost first

vars == <<safes, created, stack>>

\* A Safe without storage.  promised is history: the initializer of its
\* creation; setups: the arguments with which setup has run.
Fresh(init) ==
    [owners |-> {}, threshold |-> 0, modulesSet |-> FALSE,
     promised |-> init, setups |-> <<>>]

Top == stack[Len(stack)]
Rest == SubSeq(stack, 1, Len(stack) - 1)
InPhase(kind, p) == stack # <<>> /\ Top.kind = kind /\ Top.phase = p

ControlOutside ==
    stack # <<>> =>
        \/ Top.phase \in {"delegate", "callback"}
        \/ Top.phase = "payment" /\ Top.args.payment = "token"

Init ==
    /\ safes = [a \in {Singleton} |-> Fresh(None)]
    /\ created = 0
    /\ stack = <<>>

-----------------------------------------------------------------------------
(* setup *)

\* Mutant of CanSetup: neither the threshold nor the list of modules is
\* looked at.
CanSetupAgain(safe, args) == args.threshold \in 1..Cardinality(args.owners)

CanSetup(safe, args) ==
    /\ safe.threshold = 0                                   \* GS200
    /\ args.threshold \in 1..Cardinality(args.owners)       \* GS201, GS202
    /\ ~safe.modulesSet                                     \* GS100

\* Mutant of SetUp: setupModules is called only for a delegatecall.
SetUpWithoutModules(safe, args) ==
    [safe EXCEPT !.owners = args.owners, !.threshold = args.threshold,
                 !.modulesSet = args.to, !.setups = Append(@, args)]

\* The storage after setupOwners and the first line of setupModules.
SetUp(safe, args) ==
    [safe EXCEPT !.owners = args.owners, !.threshold = args.threshold,
                 !.modulesSet = TRUE, !.setups = Append(@, args)]

AfterDelegate(args) == IF args.payment = "none" THEN "end" ELSE "payment"

SetupFrame(a, args, before) ==
    [kind |-> "setup", addr |-> a, args |-> args, before |-> before,
     phase |-> IF args.to THEN "delegate" ELSE AfterDelegate(args)]

setup(a, args) ==
    /\ ControlOutside /\ Len(stack) < MaxDepth
    /\ a \in DOMAIN safes
    /\ CanSetup(safes[a], args)
    /\ safes' = [safes EXCEPT ![a] = SetUp(safes[a], args)]
    /\ stack' = Append(stack, SetupFrame(a, args, [safes |-> safes, created |-> created]))
    /\ UNCHANGED created

-----------------------------------------------------------------------------
(* The factory *)

CreateFrame(a, init, callback, before) ==
    [kind |-> "create", addr |-> a, callback |-> callback, before |-> before,
     phase |-> IF init \in Setup THEN "initializer"
               ELSE IF callback THEN "callback" ELSE "end"]

\* A proxy appears at a and its initializer is called.
Create(a, init, callback) ==
    LET born == [b \in DOMAIN safes \cup {a} |-> IF b = a THEN Fresh(init) ELSE safes[b]]
        before == [safes |-> safes, created |-> created]
        frame == CreateFrame(a, init, callback, before)
    IN  /\ ControlOutside /\ Len(stack) + 1 < MaxDepth
        /\ Cardinality(DOMAIN safes) <= MaxProxies
        /\ a \notin DOMAIN safes                            \* Create2 call failed
        /\ IF init \in Setup
           THEN /\ CanSetup(Fresh(init), init)
                /\ safes' = [born EXCEPT ![a] = SetUp(born[a], init)]
                /\ stack' = stack \o
                      <<frame, SetupFrame(a, init, [safes |-> born, created |-> created'])>>
           ELSE safes' = born /\ stack' = Append(stack, frame)

createProxy(init) ==
    /\ created < MaxProxies
    /\ created' = created + 1
    /\ Create([created |-> created + 1], init, FALSE)

createProxyWithNonce(init, salt) ==
    /\ created' = created
    /\ Create([initializer |-> init, salt |-> salt, withCallback |-> FALSE], init, FALSE)

createProxyWithCallback(init, salt) ==
    /\ created' = created
    /\ Create([initializer |-> init, salt |-> salt, withCallback |-> TRUE], init, TRUE)

-----------------------------------------------------------------------------
(* How the calls go on. *)

Advance(p) == stack' = [stack EXCEPT ![Len(stack)].phase = p]

DelegateReturns ==
    /\ InPhase("setup", "delegate")
    /\ Advance(AfterDelegate(Top.args))
    /\ UNCHANGED <<safes, created>>

PaymentReturns ==
    /\ InPhase("setup", "payment")
    /\ Advance("end")
    /\ UNCHANGED <<safes, created>>

InitializerReturns ==
    /\ InPhase("create", "initializer")
    /\ Advance(IF Top.callback THEN "callback" ELSE "end")
    /\ UNCHANGED <<safes, created>>

CallbackReturns ==
    /\ InPhase("create", "callback")
    /\ Advance("end")
    /\ UNCHANGED <<safes, created>>

End ==
    /\ stack # <<>> /\ Top.phase = "end"
    /\ stack' = Rest
    /\ UNCHANGED <<safes, created>>

\* Mutant of LastReverted: the factory ignores the result of the initializer.
LastRevertedIgnored == Len(stack)

\* The outermost frame that reverts with the top one: the factory reverts
\* when the initializer has failed.
LastReverted ==
    IF Len(stack) > 1 /\ stack[Len(stack) - 1].phase = "initializer"
    THEN Len(stack) - 1 ELSE Len(stack)

\* GS000, GS011, GS012, a callback that reverts, or gas that runs out.
Revert ==
    /\ stack # <<>>
    /\ safes' = stack[LastReverted].before.safes
    /\ created' = stack[LastReverted].before.created
    /\ stack' = SubSeq(stack, 1, LastReverted - 1)

\* A Safe that has owners changes them by its own transactions, and so does
\* the delegatecall of its setup.
Reconfigure(a) ==
    /\ ControlOutside
    /\ a \in DOMAIN safes /\ safes[a].threshold > 0
    /\ \E c \in Configs :
          /\ c.threshold <= Cardinality(c.owners)
          /\ safes' = [safes EXCEPT ![a].owners = c.owners, ![a].threshold = c.threshold]
    /\ UNCHANGED <<created, stack>>

Next ==
    \/ \E a \in DOMAIN safes, args \in Setup : setup(a, args)
    \/ \E init \in Initializer : createProxy(init)
    \/ \E init \in Initializer, salt \in Salt :
          createProxyWithNonce(init, salt) \/ createProxyWithCallback(init, salt)
    \/ DelegateReturns
    \/ PaymentReturns
    \/ InitializerReturns
    \/ CallbackReturns
    \/ End
    \/ Revert
    \/ \E a \in DOMAIN safes : Reconfigure(a)

Spec == Init /\ [][Next]_vars

-----------------------------------------------------------------------------
(* Properties *)

Proxy == CreateAddress \cup Create2Address

\* setup succeeds at most once for a Safe: not again during its own
\* delegatecall or payment, not in a nested creation, and not after the
\* owners reconfigured the Safe.
SetupOnce == \A a \in DOMAIN safes : Len(safes[a].setups) <= 1

\* A proxy created with a setup call as initializer was set up with exactly
\* these arguments, by whomever and with whatever calls nested in it: no
\* code that runs, not even during the creation, gets to see it before or to
\* set it up first, and its address, computed in advance, keeps what it
\* promises.
BornAsPromised ==
    \A a \in DOMAIN safes :
        safes[a].promised \in Setup => safes[a].setups = <<safes[a].promised>>

\* Whenever other code runs, a Safe has owners exactly when its list of
\* modules is initialised: setup needs no second check (GnosisSafe.sol:88),
\* and no Safe is seen or left half set up.
SetUpWhole ==
    \A a \in DOMAIN safes :
        /\ safes[a].threshold > 0 <=> safes[a].modulesSet
        /\ safes[a].threshold > 0 <=> Len(safes[a].setups) = 1
        /\ safes[a].threshold <= Cardinality(safes[a].owners)

\* The constructor leaves "an unusable Safe, perfect for the singleton"
\* (GnosisSafe.sol:60-62) which cannot be set up (GnosisSafe.Setup.spec.ts:26).
SingletonUnusable == safes[Singleton].setups = <<>>
=============================================================================
