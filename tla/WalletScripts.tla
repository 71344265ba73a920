---------------------------- MODULE WalletScripts ----------------------------
(***************************************************************************)
(* src_multiSigWallet/main.ts: the commands that deploy the wallet and its *)
(* CheckExecutor, set the wallet up, fund it, move assets from the wallet  *)
(* to the executor and cash checks there.  Each execution of a command is  *)
(* a process of its own; nobody keeps two of them from running at once.    *)
(*                                                                         *)
(* A command reads what it needs, signs, hands one transaction to a node   *)
(* and exits.  The node refuses a transaction that would revert now; what  *)
(* it accepts is mined later, when the chain may have changed.             *)
(***************************************************************************)
EXTENDS Integers, Sequences, FiniteSets, FiniteSetsExt

CONSTANTS
    Run,            \* bound: the executions of commands
    Job,            \* Job[r]: what the execution r does
    After,          \* bound: After[r], the executions that must exit before r starts
    MaxTime         \* bound: milliseconds

Asset == {"ether", "erc20"}
Place == {"multiSigWallet", "checkExecutor", "accepter"}
Deployable == {"multiSigWallet", "checkExecutor"}

\* what: the contract to deploy or the asset to send, with its amount.
ASSUME ScriptAssumption ==
    /\ IsFiniteSet(Run) /\ MaxTime \in Nat
    /\ After \in [Run -> SUBSET Run]
    /\ \A r \in Run :
          \/ Job[r].command = "deploy" /\ Job[r].what \in Deployable
          \/ Job[r].command = "setup"
          \/ /\ Job[r].command \in {"fund", "move", "check"}
             /\ Job[r].what \in Asset /\ Job[r].amount \in Nat \ {0}

Doing(command) == {r \in Run : Job[r].command = command}

VARIABLES
    process,        \* where each execution is
    known,          \* what it has read: the wallet's nonce or its check's nonce
    pending,        \* the accepted transactions of each sender, in their order
    code,           \* the contracts that exist
    holder,         \* whose owners the wallet has
    nonce,          \* the wallet's nonce
    register,       \* executedCheckNonceRegister of the executor
    balance,
    blind,          \* history: the calls accepted before their contract existed
    clock           \* new Date().getTime()

scriptVars == <<process, known, pending, blind, code, holder, nonce, register, balance, clock>>

chain == <<code, holder, nonce, register, balance>>

Unread == <<>>

ScriptInit ==
    /\ process = [r \in Run |-> "idle"] /\ known = [r \in Run |-> Unread]
    /\ pending = [s \in {"deployer", "accepter"} |-> <<>>]
    /\ blind = {} /\ code = {} /\ holder = "nobody"
    /\ nonce = 0 /\ register = {}
    /\ balance = [p \in Place |-> [a \in Asset |-> 0]]
    /\ clock = 0

-----------------------------------------------------------------------------
(* The commands *)

Sender(r) == IF Job[r].command \in {"move", "check"} THEN "accepter" ELSE "deployer"

\* deployConfig holds an address once the deployment has been sent.
Addressed == {Job[r].what : r \in {q \in Doing("deploy") : process[q] \in {"sent", "landed"}}}

Needs(r) ==
    CASE Job[r].command = "deploy" -> IF Job[r].what = "checkExecutor" THEN {"multiSigWallet"} ELSE {}
      [] Job[r].command \in {"setup", "fund"} -> {"multiSigWallet"}
      [] OTHER -> Deployable

\* The operator starts a command, or never does.
Launch(r) ==
    /\ process[r] = "idle" /\ Needs(r) \subseteq Addressed
    /\ \A q \in After[r] : process[q] \notin {"idle", "running", "signed"}
    /\ process' = [process EXCEPT ![r] = "running"]
    /\ UNCHANGED <<known, pending, blind, chain, clock>>

\* checkNonceGenerator hashes the value of the call and the time, but not its
\* data, which holds the amount of a token (see CheckIssuer).
checkNonce(r) ==
    IF Job[r].what = "ether" THEN <<"ether", Job[r].amount, clock>> ELSE <<"erc20", 0, clock>>

Exit(r, how) == process' = [process EXCEPT ![r] = how]

Learn(r, value) ==
    /\ known' = [known EXCEPT ![r] = value]
    /\ Exit(r, "signed")
    /\ UNCHANGED <<pending, blind, chain, clock>>

\* multiSigWallet.nonce() is of the last block; without a contract it throws.
\* The owners then sign the hash with this nonce.
ReadNonce(r) ==
    /\ process[r] = "running" /\ Job[r].command = "move"
    /\ IF "multiSigWallet" \in code
       THEN Learn(r, <<nonce>>)
       ELSE Exit(r, "failed") /\ UNCHANGED <<known, pending, blind, chain, clock>>

MakeCheck(r) ==
    process[r] = "running" /\ Job[r].command = "check" /\ Learn(r, checkNonce(r))

-----------------------------------------------------------------------------
(* Transactions *)

\* checkSignatures: the three owners that set the wallet up sign.
SignaturesAccepted == "multiSigWallet" \in code /\ holder = "script"

\* execTransaction: GS026, also when the nonce has moved on, and GS013.
TransactionReverts(r) ==
    \/ ~SignaturesAccepted \/ known[r] # <<nonce>>
    \/ balance["multiSigWallet"][Job[r].what] < Job[r].amount

\* Mutant of CheckReverts: checks are bound to the nonce of the wallet, as
\* its transactions are.
CheckInSequence(r) ==
    /\ "checkExecutor" \in code
    /\ \/ ~SignaturesAccepted \/ known[r] \in register \/ nonce # 1
       \/ balance["checkExecutor"][Job[r].what] < Job[r].amount

\* executeCheck: GS026, C200 and GS013; a call of an address without code
\* does nothing.
CheckReverts(r) ==
    /\ "checkExecutor" \in code
    /\ \/ ~SignaturesAccepted \/ known[r] \in register
       \/ balance["checkExecutor"][Job[r].what] < Job[r].amount

Reverts(r) ==
    CASE Job[r].command = "setup" -> holder # "nobody"      \* GS200
      [] Job[r].command = "move" -> TransactionReverts(r)
      [] Job[r].command = "check" -> CheckReverts(r)
      [] OTHER -> FALSE

Callee(r) == IF Job[r].command = "check" THEN "checkExecutor" ELSE "multiSigWallet"

Ready(r) ==
    process[r] = IF Job[r].command \in {"move", "check"} THEN "signed" ELSE "running"

\* Mutant of Send: the transaction is given to the node twice.
SendTwice(r) ==
    /\ Ready(r)
    /\ IF Reverts(r)
       THEN Exit(r, "failed") /\ UNCHANGED <<pending, blind>>
       ELSE /\ Exit(r, "sent") /\ pending' = [pending EXCEPT ![Sender(r)] = @ \o <<r, r>>]
            /\ blind' = IF Callee(r) \in code THEN blind ELSE blind \cup {r}
    /\ UNCHANGED <<known, chain, clock>>

\* Mutant of Send: a transaction that would revert is tried again.
SendRetries(r) ==
    /\ Ready(r) /\ ~Reverts(r)
    /\ Exit(r, "sent") /\ pending' = [pending EXCEPT ![Sender(r)] = Append(@, r)]
    /\ blind' = IF Callee(r) \in code THEN blind ELSE blind \cup {r}
    /\ UNCHANGED <<known, chain, clock>>

\* The estimate of the gas runs the transaction on the last block and throws
\* if it reverts: exit code 1.  Otherwise it is sent, with the sender's next
\* account nonce, and the process exits with code 0.
Send(r) ==
    /\ Ready(r)
    /\ IF Reverts(r)
       THEN Exit(r, "failed") /\ UNCHANGED <<pending, blind>>
       ELSE /\ Exit(r, "sent") /\ pending' = [pending EXCEPT ![Sender(r)] = Append(@, r)]
            /\ blind' = IF Callee(r) \in code THEN blind ELSE blind \cup {r}
    /\ UNCHANGED <<known, chain, clock>>

\* A process that read the sender's account nonce before another one sent
\* with it is refused by the node: exit code 1.
Refuse(r) ==
    /\ Ready(r) /\ pending[Sender(r)] # <<>>
    /\ Exit(r, "failed")
    /\ UNCHANGED <<known, pending, blind, chain, clock>>

Gain(place, r) == balance' = [balance EXCEPT ![place][Job[r].what] = @ + Job[r].amount]

Transfer(from, to, r) ==
    balance' = [balance EXCEPT ![from][Job[r].what] = @ - Job[r].amount,
                               ![to][Job[r].what] = @ + Job[r].amount]

Deploys(r) ==
    /\ Job[r].command = "deploy" /\ code' = code \cup {Job[r].what}
    /\ UNCHANGED <<holder, nonce, register, balance>>

SetsUp(r) ==
    /\ Job[r].command = "setup" /\ holder' = "script"
    /\ UNCHANGED <<code, nonce, register, balance>>

Funds(r) ==
    /\ Job[r].command = "fund" /\ Gain("multiSigWallet", r)
    /\ UNCHANGED <<code, holder, nonce, register>>

\* Mutant of Moves: the nonce stays.
MovesAgain(r) ==
    /\ Job[r].command = "move"
    /\ Transfer("multiSigWallet", "checkExecutor", r)
    /\ UNCHANGED <<code, holder, nonce, register>>

Moves(r) ==
    /\ Job[r].command = "move"
    /\ nonce' = nonce + 1 /\ Transfer("multiSigWallet", "checkExecutor", r)
    /\ UNCHANGED <<code, holder, register>>

Cashes(r) ==
    /\ Job[r].command = "check"
    /\ IF "checkExecutor" \in code
       THEN register' = register \cup {known[r]} /\ Transfer("checkExecutor", "accepter", r)
       ELSE UNCHANGED <<register, balance>>
    /\ UNCHANGED <<code, holder, nonce>>

Effect(r) == Deploys(r) \/ SetsUp(r) \/ Funds(r) \/ Moves(r) \/ Cashes(r)

\* A block takes the next transaction of one of the senders.
Mine(s) ==
    /\ pending[s] # <<>>
    /\ LET r == Head(pending[s])
       IN  IF Reverts(r)
           THEN Exit(r, "reverted") /\ UNCHANGED chain
           ELSE Exit(r, "landed") /\ Effect(r)
    /\ pending' = [pending EXCEPT ![s] = Tail(@)]
    /\ UNCHANGED <<known, blind, clock>>

\* Whoever comes first may set the new wallet up.
StrangerSetsUp ==
    /\ "multiSigWallet" \in code /\ holder = "nobody"
    /\ holder' = "stranger"
    /\ UNCHANGED <<process, known, pending, blind, code, nonce, register, balance, clock>>

Tick ==
    /\ clock < MaxTime /\ clock' = clock + 1
    /\ UNCHANGED <<process, known, pending, blind, chain>>

ScriptNext ==
    \/ \E r \in Run : Launch(r) \/ ReadNonce(r) \/ MakeCheck(r) \/ Send(r) \/ Refuse(r)
    \/ \E s \in DOMAIN pending : Mine(s)
    \/ StrangerSetsUp
    \/ Tick

\* Processes that were started go on to their exit, and blocks keep taking
\* what the nodes accepted.  The operator and strangers owe nothing.
Fairness ==
    /\ WF_scriptVars(\E r \in Run : ReadNonce(r) \/ MakeCheck(r) \/ Send(r) \/ Refuse(r))
    /\ WF_scriptVars(\E s \in DOMAIN pending : Mine(s))

ScriptSpec == ScriptInit /\ [][ScriptNext]_scriptVars /\ Fairness

-----------------------------------------------------------------------------
(* Properties *)

Landed(command) == {r \in Doing(command) : process[r] = "landed"}

Sum(S) == MapThenSumSet(LAMBDA r : Job[r].amount, S)

OfAsset(S, a) == {r \in S : Job[r].what = a}

\* A check that has the nonce of r.
Clash(r) == \E q \in Landed("check") \ {r} : known[q] = known[r]

\* A transaction that passed its estimate and still reverts lost a race, and
\* one of a known kind: a setup to another setup, a Safe transaction to one
\* that was signed for the same nonce (never to a check), and a check to one
\* with its nonce or to those that took the executor's funds first (never to
\* the order of the checks or to a Safe transaction) - or it was estimated
\* against an executor that was not there yet.
RevertExplained ==
    \A r \in Run : process[r] = "reverted" =>
        CASE Job[r].command = "setup" -> holder = "stranger" \/ Landed("setup") # {}
          [] Job[r].command = "move" -> \E q \in Landed("move") \ {r} : known[q] = known[r]
          [] Job[r].command = "check" ->
                r \in blind \/ Clash(r) \/ OfAsset(Landed("check"), Job[r].what) # {}
          [] OTHER -> FALSE

\* Every process that was started ends, and what it sent is decided.
RunsEnd ==
    <>[](\A r \in Run : process[r] \in {"idle", "failed", "landed", "reverted"})

\* Safe transactions that race for a nonce do not all lose: the nonce of a
\* transaction that the node accepted is used in the end.
Passed(r) == known[r] # Unread /\ known[r][1] < nonce

NonceProgress == \A r \in Doing("move") : process[r] = "sent" ~> Passed(r)

\* A check that the node accepted is paid if the executor has enough for all
\* checks of its asset that are still out, unless another check with the same
\* fields was made in the same millisecond (checkNonceGenerator).
Covered(a) ==
    /\ "checkExecutor" \in code
    /\ balance["checkExecutor"][a] >=
          Sum({r \in OfAsset(Doing("check"), a) : process[r] \notin {"landed", "failed", "reverted"}})

ChecksCashed ==
    \A r \in Doing("check") :
        process[r] = "sent" /\ Covered(Job[r].what) ~> process[r] = "landed" \/ Clash(r)
=============================================================================
