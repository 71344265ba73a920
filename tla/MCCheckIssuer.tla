---------------------------- MODULE MCCheckIssuer ----------------------------
(* Owners 2 and 3 with signatures of both parities and 4, who is no owner;   *)
(* two checks that differ only in the data of their call, two with numbers   *)
(* that read the same one after another, 1 0 10 0 0 and 10 1 0 0 0, and one  *)
(* for another payee; signers in both orders, one twice and one who is no    *)
(* owner.                                                                    *)
EXTENDS CheckIssuer

MCParity == [a \in {2, 3, 4} |-> a % 2]

One == <<<<1>>, <<0>>, <<1, 0>>, <<0>>, <<0>>>>
Ten == <<<<1, 0>>, <<1>>, <<0>>, <<0>>, <<0>>>>

MCParams ==
    {[head |-> "to", numbers |-> One, tail |-> "ether", data |-> "d"],
     [head |-> "to", numbers |-> One, tail |-> "ether", data |-> "e"],
     [head |-> "to", numbers |-> Ten, tail |-> "ether", data |-> "d"],
     [head |-> "other", numbers |-> One, tail |-> "ether", data |-> "d"]}
MCSignerList == {<<2, 3>>, <<3, 2>>, <<3, 3>>, <<4, 2>>}
==============================================================================
