\* A transaction, and another call that syncs the signer or connects it to an account.
SPECIFICATION SignerFairSpec
CONSTANTS
    Signers = {1}
    Sends = {1}
    Syncs = {2}
    Connects = {2}
    MaxBlock = 2
    MaxFaults = 1
    Own = "own"
    Other = "other"
    Index <- MCIndex
    SignerOf <- MCSignerOf
    Data <- MCData
INVARIANTS
    SignerTypeOK
    ReceiptIsOwn
PROPERTY LaterBlockIsReported
CHECK_DEADLOCK FALSE
