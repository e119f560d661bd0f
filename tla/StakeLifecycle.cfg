SPECIFICATION Spec
CONSTANTS
    Entities = {e1, e2}
    Amounts = {0, 1}
    Delays = {0, 1, 2}
    MaxUint112 = 1
    MaxUint48 = 10
    MaxTime = 4
    MaxDepth = 2
    MaxBalance = 2
INVARIANTS
    StakeTypeOK
    LockedForDelay
    HoldsWhatItOwes
    NoStakeIsStuck
