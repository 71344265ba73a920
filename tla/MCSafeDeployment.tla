-------------------------- MODULE MCSafeDeployment --------------------------
(* A setup with a delegatecall that also pays in a token, and a plain one;   *)
(* two proxies beside the singleton, one creation nested in another.         *)
EXTENDS SafeDeployment

CONSTANTS a, b

Simple == [owners |-> {a}, threshold |-> 1, to |-> FALSE, payment |-> "ether"]
Rich == [owners |-> {a, b}, threshold |-> 2, to |-> TRUE, payment |-> "token"]
MCSetup == {Simple, Rich}
MCConfigs == {[owners |-> {b}, threshold |-> 1]}
=============================================================================
