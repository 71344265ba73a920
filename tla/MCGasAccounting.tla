--------------------------- MODULE MCGasAccounting ---------------------------
(* Words of 24 bits.  The values lie around every boundary: 2500 and 3000,   *)
(* 157500 = 63 * 2500, where the 64th exceeds the 2500, what GS010 demands   *)
(* of 100000, 157500 and 200000, and the end of a word.                      *)
EXTENDS GasAccounting

Around(x) == {x - 1, x, x + 1}

MCWord == 16777216
MCGas == Around(2500) \cup Around(3000) \cup Around(103000)
         \cup Around(160500) \cup Around(203675) \cup {210000}
MCSafeTxGas == {0, 1} \cup Around(100000) \cup Around(157500) \cup Around(200000)
               \cup {210001, 262144, MCWord - 3001, MCWord - 3000}
MCBaseGas == {0, 21000, MCWord - 1}
MCPrice == {0, 1, 50}

\* Until 500 are spent or beyond, then a call that starts for nothing, of an
\* account not accessed yet, with value, and with value to a new account.
MCCosts ==
    {[before |-> code[1], after |-> code[2], start |-> call[1], stipend |-> call[2]] :
        code \in {<<0, 0>>, <<500, 0>>, <<100, 400>>, <<700, 0>>},
        call \in {<<0, 0>>, <<2600, 0>>, <<9100, 2300>>, <<36600, 2300>>}}
==============================================================================
