SPECIFICATION MCSpec
CONSTANTS
    First = f
    Second = g
    Facilities = {f, g}
    Pools = {{f}, {g}, {f, g}}
    Cap <- MCCap
    AdvanceRate <- MCAdvanceRate
    Haircut <- MCHaircut
    Bps = 4
    Limits = {2}
    Amounts = {1, 2}
    EligibleAmounts = {3, 6}
    Maturity <- MCMaturity
    Ttls = {1}
    Validities = {2}
    MaxCash = 2
    MaxPolicy = 2
    MaxAuthEpoch = 2
    MaxKeyEpoch = 1
    MaxNonce = 2
    MaxTime = 2
    MaxDebt = 2
    MaxChanges = 3
    PoolCap = 2
INVARIANTS AnchorAgrees DebtMatchesState
PROPERTIES DrawsCovered ReservationUsedOnce
CHECK_DEADLOCK FALSE
