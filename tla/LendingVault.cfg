SPECIFICATION MCSpec
CONSTANTS
    LPs = {a, b}
    Facilities = {f}
    Assets = {1, 2}
    ShareAmounts = {1, 2}
    MinAssets = {0, 1, 2}
    VirtualShares = 1
    VirtualAssets = 1
    WithdrawalTTL = 1
    MaxEpoch = 2
    MaxTime = 2
    MaxBalance = 2
    MaxDebt = 2
    MaxRecovery = 1
INVARIANTS Backed QueueKept
PROPERTIES ValueKept RequestsResolved
CHECK_DEADLOCK FALSE
