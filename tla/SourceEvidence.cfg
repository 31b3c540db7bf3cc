SPECIFICATION Spec
CONSTANTS
    Refs = {o1, o2}
    NoRef = none
    Facilities = {f}
    NoFacility = unassigned
    Amounts = {1}
    Deltas <- MCDeltas
    SettlementIds = {s1, s2}
    DueAt <- MCDueAt
    MaxReservation = 1
    MaxValidity = 1
    MaxAge = 1
    Tolerance = 1
    OverdueHaircut = 1
    Bps = 2
    MaxLag = 0
    MaxTime = 2
    MaxLog = 6
    MaxNet = 2
    MaxTokens = 2
CONSTRAINT Bounded
SYMMETRY Alike
INVARIANTS
    EligibleIsOwed
    TotalsAgree
CHECK_DEADLOCK FALSE
