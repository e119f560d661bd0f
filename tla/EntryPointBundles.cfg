SPECIFICATION Spec
CONSTANTS
    DAILY_WINDOW = 1
    MONTHLY_WINDOW = 2
    Limit <- TightLimit
    usdcPerEth = 1
    EtherUnit = 1
    BPS = 2
    PANIC_THRESHOLD_BPS = 1
    COOLDOWN_PERIOD = 1
    WITHDRAW_TIMELOCK = 1
    TRANSFER_SELECTOR = 7
    MaxUint256 = 7
    PREMIUM_BPS = 1
    MIN_POSTOP_GAS = 1
    MAX_COST_CAP = 2
    Ops <- MixedOps
    MaxOps = 2
    MaxNonce = 2
    Prices = {2}
    GasUsed = {1}
    PostOpGas = {0, 1}
    Funding <- MCFunding
    MaxFunds = 1
    Deployed = FALSE
    DeployTime = 1
    MaxTime = 2
INVARIANTS
    ChainTypeOK
    Solvency
    ExactlyOnce
    ActsOnceCreated
    PreflightSound
