SPECIFICATION Spec
CONSTANTS
    DAILY_WINDOW = 1
    MONTHLY_WINDOW = 2
    Limit <- MCLimit
    usdcPerEth = 1
    EtherUnit = 1
    BPS = 1
    PANIC_THRESHOLD_BPS = 1
    COOLDOWN_PERIOD = 1
    WITHDRAW_TIMELOCK = 2
    TRANSFER_SELECTOR = 7
    MaxUint256 = 3
    DeployTime = 1
    MaxTime = 4
    MaxFunds = 1
    Calls <- PlainCalls
    MaxCalls = 1
    Recipients = {}
    GasCosts = {1}
    Prefunds = {0}
INVARIANTS
    UsdcTransferAccepted
CHECK_DEADLOCK FALSE
