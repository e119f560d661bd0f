SPECIFICATION Spec
CONSTANTS
    DAILY_WINDOW = 2
    MONTHLY_WINDOW = 3
    Limit <- MCLimit
    usdcPerEth = 1
    EtherUnit = 1
    BPS = 2
    PANIC_THRESHOLD_BPS = 1
    COOLDOWN_PERIOD = 1
    WITHDRAW_TIMELOCK = 1
    TRANSFER_SELECTOR = 7
    MaxUint256 = 7
    PREMIUM_BPS = 1
    MIN_POSTOP_GAS = 1
    MAX_COST_CAP = 2
    Ops <- SelfPaidOps
    MaxOps = 1
    MaxNonce = 2
    Prices = {1, 2}
    GasUsed = {1}
    PostOpGas = {0, 1}
    Funding <- AmpleFunding
    MaxFunds = 0
    Deployed = TRUE
    DeployTime = 1
    MaxTime = 3
INVARIANTS
    LargeOpExecutes
CHECK_DEADLOCK FALSE
