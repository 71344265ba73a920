--------------------------- MODULE MCWalletScripts ---------------------------
(* Both deployments, the setup, one funding that pays for two moves, two     *)
(* moves that may race for a nonce and two checks in tokens, which share     *)
(* their nonce when they are made in the same millisecond.                   *)
EXTENDS WalletScripts

CONSTANTS wallet, executor, setup, fund, move1, move2, check1, check2

Sending(command, amount) == [command |-> command, what |-> "erc20", amount |-> amount]

MCJob ==
    [r \in Run |->
        CASE r = wallet -> [command |-> "deploy", what |-> "multiSigWallet"]
          [] r = executor -> [command |-> "deploy", what |-> "checkExecutor"]
          [] r = setup -> [command |-> "setup"]
          [] r = fund -> Sending("fund", 3)
          [] r = move1 -> Sending("move", 2)
          [] r = move2 -> Sending("move", 1)
          [] r = check1 -> Sending("check", 2)
          [] OTHER -> Sending("check", 1)]

\* The operator keeps to the order of the commands in main.ts; what was sent
\* by one may be pending still when the next one reads the chain.  Checks are
\* cashed at any time.
MCAfter ==
    [r \in Run |->
        CASE r = setup -> {wallet}
          [] r = executor -> {setup}
          [] r = fund -> {executor}
          [] r = move1 -> {fund}
          [] r = move2 -> {move1}
          [] r = check2 -> {check1}
          [] OTHER -> {}]
==============================================================================
