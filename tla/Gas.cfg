\* On a chain that mines at once, and on one that mines later; a request may fail.
SPECIFICATION GasFairSpec
CONSTANTS
    Rows <- Suite
    MaxFaults = 1
INVARIANTS
    GasTypeOK
    RowsAreKept
    OneFillsAtATime
    OnlyFaultsFail
PROPERTY SuiteEnds
CHECK_DEADLOCK FALSE
