\* One transaction, and no request that fails.
SPECIFICATION SignerFairSpec
CONSTANTS
    Signers = {1}
    Sends = {1}
    Syncs = {}
    Connects = {}
    MaxBlock = 2
    MaxFaults = 0
    Own = "own"
    Other = "other"
    Index <- MCIndex
    SignerOf <- MCSignerOf
    Data <- MCData
PROPERTY ExecutedIsReported
CHECK_DEADLOCK FALSE
