\* Two queues of the same process and two senders, of three operations together.
SPECIFICATION FairSpec
CONSTANTS
    Queues = {q1, q2}
    Senders = {s1, s2}
    MaxOps = 2
    MaxGiven = 3
    MaxTimers = 2
    IDLE_TIME = 1
    BUNDLE_SIZE_IMMEDIATE = 3
    NaN = NaN
INVARIANTS
    QueueTypeOK
    OneBundleInFlight
    ExecutedInOrder
    TimerIsOwned
PROPERTY QueueDrains
CHECK_DEADLOCK FALSE
