-------------------------- MODULE MCCheckSignatures --------------------------
(* Accounts 2 and 3 have keys, account 4 is a contract.  2 signed h1 as it   *)
(* is, 3 signed h2 with eth_sign, 4 endorses d1 at times and never d2; other *)
(* confirmations are approvals on chain and the call itself, which 3 makes.  *)
(* Either data may stand beside either hash.  The wallet may not be set up,  *)
(* and 4 may be a former owner whose confirmations remain.                   *)
EXTENDS CheckSignatures

CONSTANTS h1, h2, d1, d2

MCAccount == {2, 3, 4}
MCSigned == {<<2, <<"plain", h1>>>>, <<3, <<"prefixed", h2>>>>}
MCEndorsable == {<<4, d1>>}
MCOwnerSets == {{}, {2, 3}, {2, 3, 4}}
MCCaller == {3}
=============================================================================
