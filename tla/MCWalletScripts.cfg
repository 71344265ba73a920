CONSTANTS
    wallet = wallet
    executor = executor
    setup = setup
    fund = fund
    move1 = move1
    move2 = move2
    check1 = check1
    check2 = check2
    Run = {wallet, executor, setup, fund, move1, move2, check1, check2}
    Job <- MCJob
    After <- MCAfter
    MaxTime = 1
SPECIFICATION ScriptSpec
INVARIANT RevertExplained
PROPERTIES RunsEnd NonceProgress ChecksCashed
CHECK_DEADLOCK FALSE
