SPECIFICATION Spec
CONSTANTS
    DAILY_WINDOW = 1
    MONTHLY_WINDOW = 2
    Limit <- MCLimit
    usdcPerEth = 1
    EtherUnit = 1
    BPS = 1
    PANIC_THRESHOLD_BPS = 1
    COOLDOWN_PERIOD = 2
    WITHDRAW_TIMELOCK = 1
    TRANSFER_SELECTOR = 7
    MaxUint256 = 3
    DeployTime = 1
    MaxTime = 3
    MaxFunds = 1
    Calls <- MixedCalls
    MaxCalls = 2
    Recipients = {"contract"}
    GasCosts = {1}
    Prefunds = {1}
INVARIANTS
    TypeOK
    WithinLimits
    CallsAndChargesCounted
    CooldownHonoured
    WithdrawalsSpaced
    EthSpendableAfterReset
PROPERTIES
    KeepsPromise
CHECK_DEADLOCK FALSE
