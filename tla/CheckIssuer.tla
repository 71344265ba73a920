----------------------------- MODULE CheckIssuer -----------------------------
(***************************************************************************)
(* utils/offChainMultiSign.ts: how a script makes checks.  For each check  *)
(* it asks checkNonceGenerator for a nonce, has owners sign the hash and   *)
(* packs the message that the check owner takes to CheckExecutor.          *)
(*                                                                         *)
(* The script is asynchronous.  What stands after an `await` runs as a     *)
(* microtask, before the event loop takes the next callback; the promises  *)
(* of several checks may be under way at the same time.                    *)
(***************************************************************************)
EXTENDS Integers, Sequences, FiniteSets

CONSTANTS
    Signer,         \* addresses of owners, as numbers
    Parity,         \* Parity[a]: the recovery id of the signatures of a
    Owners,         \* the owners of the wallet and its threshold
    Threshold,
    Params,         \* bound: the parameters of checks
    SignerList,     \* bound: the signers a script lists, in any order
    MaxTime,        \* bound: milliseconds
    MaxChecks       \* bound: checks made

\* Parameters of a check.  head: what checkNonceGenerator writes first, the
\* type hash, to and checkOwner; numbers: the decimal digits of value,
\* operation, safeTxGas, baseGas and gasPrice; tail: gasToken, refundReceiver,
\* multiSigWalletAddress and chainId.  head and tail are as wide for one check
\* of a wallet as for another.
Numbers == [1..5 -> Seq(0..9)]

ASSUME IssuerAssumption ==
    /\ Signer \subseteq Nat \ {0, 1} /\ IsFiniteSet(Signer)
    /\ Parity \in [Signer -> {0, 1}]
    /\ Owners \subseteq Signer /\ Threshold \in 1..Cardinality(Owners)
    /\ \A p \in Params : DOMAIN p = {"head", "numbers", "tail", "data"} /\ p.numbers \in Numbers
    /\ \A l \in SignerList : l \in Seq(Signer) /\ Len(l) >= Threshold
    /\ MaxTime \in Nat /\ MaxChecks \in Nat

VARIABLES
    clock,          \* new Date().getTime()
    checks,         \* the checks asked for, in order
    microtasks,     \* the continuations to run, first in first out
    callbacks,      \* the checks whose crypto.randomBytes has not come back
    register        \* executedCheckNonceRegister of CheckExecutor

issuerVars == <<clock, checks, microtasks, callbacks, register>>

IssuerInit ==
    /\ clock = 0
    /\ checks = <<>> /\ microtasks = <<>> /\ callbacks = {}
    /\ register = {}

-----------------------------------------------------------------------------
(* checkNonceGenerator *)

\* It starts randomBytes and awaits its result, which is not a promise: the
\* continuation is queued at once.
checkNonceGenerator(p, signers) ==
    /\ Len(checks) < MaxChecks
    /\ checks' = Append(checks, [params |-> p, signers |-> signers, entropy |-> 0,
                                 state |-> "awaiting", nonce |-> <<>>, time |-> 0,
                                 signatures |-> <<>>, executed |-> FALSE])
    /\ microtasks' = Append(microtasks, Len(checks) + 1)
    /\ callbacks' = callbacks \cup {Len(checks) + 1}
    /\ UNCHANGED <<clock, register>>

\* The callback of randomBytes; the bytes differ each time.
RandomBytes(i) ==
    /\ microtasks = <<>> /\ i \in callbacks
    /\ checks' = [checks EXCEPT ![i].entropy = i]
    /\ callbacks' = callbacks \ {i}
    /\ UNCHANGED <<clock, microtasks, register>>

\* The numbers follow each other with nothing between them.
joined(numbers) == numbers[1] \o numbers[2] \o numbers[3] \o numbers[4] \o numbers[5]

\* Mutant of checkNonce: the time is left out.
checkNonceWithoutTime(p, entropy, t) == <<p.head>> \o joined(p.numbers) \o <<p.tail, entropy>>

\* keccak256 tells one text from another; what it hashes is one string.  The
\* data of the call is not in it.
checkNonce(p, entropy, t) == <<p.head>> \o joined(p.numbers) \o <<p.tail, entropy, t>>

\* The rest of the function, after the await.
Continue ==
    /\ microtasks # <<>>
    /\ LET i == Head(microtasks)
       IN  checks' = [checks EXCEPT
               ![i].nonce = checkNonce(checks[i].params, checks[i].entropy, clock),
               ![i].time = clock,
               ![i].state = "nonce"]
    /\ microtasks' = Tail(microtasks)
    /\ UNCHANGED <<clock, callbacks, register>>

-----------------------------------------------------------------------------
(* Hash, signatures and message *)

executorMsgHash(p, nonce) == <<"executor", p, nonce>>

\* The lists with the members of this one.
Arrangements(list) ==
    {s \in [DOMAIN list -> {list[k] : k \in DOMAIN list}] :
        \A k \in DOMAIN list : \E j \in DOMAIN list : s[j] = list[k]}

\* Mutant of addressSorter: the order its parameter `ascend` = false names.
addressSorterDescending(list) ==
    CHOOSE s \in Arrangements(list) : \A j, k \in DOMAIN s : j < k => s[j] > s[k]

\* ascend = false sorts by ascending number; equal addresses are an error.
addressSorter(list) ==
    CHOOSE s \in Arrangements(list) : \A j, k \in DOMAIN s : j < k => s[j] < s[k]

Sortable(list) == \A i, j \in DOMAIN list : list[i] = list[j] => i = j

\* The last byte that signMsgHash writes in place of 27 or 28.
adjusted(v) == IF v = 27 THEN 31 ELSE 32

NoAccount == 0

\* What checkNSignatures reads from a signature with this v (v > 30): it
\* recovers the signer if v - 4 is the v of its signature.
EthSignature(a, h) ==
    [v |-> "ethSign", over |-> <<"prefixed", h>>,
     by |-> IF adjusted(27 + Parity[a]) - 4 = 27 + Parity[a] THEN a ELSE NoAccount]

signMsgHash(h, list) == [i \in DOMAIN list |-> EthSignature(list[i], h)]

\* executorMsgHashGenerator, signMsgHash and generateCheckMsg: they await
\* nothing that depends on other checks.
IssueCheck(i) ==
    LET c == checks[i]
        h == executorMsgHash(c.params, c.nonce)
    IN  /\ c.state = "nonce"
        /\ checks' = [checks EXCEPT
               ![i].state = IF Sortable(c.signers) THEN "issued" ELSE "failed",
               ![i].signatures = IF Sortable(c.signers)
                                 THEN signMsgHash(h, addressSorter(c.signers)) ELSE <<>>]
        /\ UNCHANGED <<clock, microtasks, callbacks, register>>

-----------------------------------------------------------------------------
(* The chain *)

Wallet == INSTANCE CheckSignatures WITH
    Account <- Signer, Hash <- {}, Data <- {}, Signed <- {}, Endorsable <- {}, OwnerSets <- {Owners},
    Caller <- {}, MaxSignatures <- 0, MaxApprovals <- 0, owners <- Owners,
    threshold <- Threshold, approvedHashes <- {}, endorsed <- {}, call <- <<>>, pc <- "idle", i <- 0,
    lastOwner <- 0, counted <- {}

\* CheckExecutor calls, so no signature stands for the caller; the data that
\* it passes is what it hashed.
SignaturesAccepted(c) ==
    LET h == executorMsgHash(c.params, c.nonce)
    IN  Wallet!Accepts(h, h, c.signatures, NoAccount)

checkValidity(c) == c.nonce \notin register /\ SignaturesAccepted(c)

\* The check owner executes; every call is meant to succeed.
executeCheck(i) ==
    /\ checks[i].state = "issued" /\ ~checks[i].executed
    /\ checkValidity(checks[i])
    /\ register' = register \cup {checks[i].nonce}
    /\ checks' = [checks EXCEPT ![i].executed = TRUE]
    /\ UNCHANGED <<clock, microtasks, callbacks>>

Tick == clock < MaxTime /\ clock' = clock + 1 /\ UNCHANGED <<checks, microtasks, callbacks, register>>

IssuerNext ==
    \/ \E p \in Params, l \in SignerList : checkNonceGenerator(p, l)
    \/ \E i \in DOMAIN checks : RandomBytes(i) \/ IssueCheck(i) \/ executeCheck(i)
    \/ Continue
    \/ Tick

IssuerSpec == IssuerInit /\ [][IssuerNext]_issuerVars

-----------------------------------------------------------------------------
(* Properties *)

Issued == {i \in DOMAIN checks : checks[i].state = "issued"}

\* What the script signs is what the wallet accepts: a check that enough
\* owners signed, listed in any order, is valid when it is issued.
IssuedAccepted ==
    \A i \in Issued :
        {checks[i].signers[k] : k \in DOMAIN checks[i].signers} \subseteq Owners =>
            SignaturesAccepted(checks[i])

\* An execution uses up no other check than those made in its millisecond for
\* the same payee, check owner, token and receiver, and of these none with
\* other numbers of the same widths, in whatever order the promises of the
\* script and the executions interleave.  Numbers of other widths may read
\* the same in a row, 1 and 0 and 10 like 10 and 1 and 0: these checks, too,
\* stand in each other's way.
DistinctIndependent ==
    \A i, j \in Issued :
        LET p == checks[i].params
            q == checks[j].params
        IN  checks[j].executed /\ checks[i].nonce = checks[j].nonce =>
                /\ checks[i].time = checks[j].time
                /\ p.head = q.head /\ p.tail = q.tail
                /\ \/ p.numbers = q.numbers
                   \/ \E k \in 1..5 : Len(p.numbers[k]) # Len(q.numbers[k])

\* "The execution of check is order irrelevant" (README.md:6): no execution
\* of one check makes another one invalid.
ChecksIndependent ==
    \A i \in Issued :
        SignaturesAccepted(checks[i]) /\ ~checks[i].executed => checkValidity(checks[i])
=============================================================================
