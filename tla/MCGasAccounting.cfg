CONSTANTS
    Word <- MCWord
    BlockGas = 210000
    Contracts = {"safe", "executor"}
    Gas <- MCGas
    SafeTxGas <- MCSafeTxGas
    BaseGas <- MCBaseGas
    Price <- MCPrice
    Costs <- MCCosts
SPECIFICATION GasSpec
INVARIANTS ShortfallBounded EventGasLeft RefundBounded
CHECK_DEADLOCK FALSE
