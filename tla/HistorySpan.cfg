SPECIFICATION SpenderSpec
CONSTANTS
    DAILY_WINDOW = 2
    MONTHLY_WINDOW = 5
    Assets = {"eth"}
    Amounts = {0, 1, 3}
    Limit <- MCLimit
    DeployTime = 1
    MaxTime = 9
INVARIANTS
    SpenderTypeOK
    SpanBound
CHECK_DEADLOCK FALSE
