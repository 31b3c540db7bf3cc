SPECIFICATION Spec
CONSTANTS
    MaxAssets = 3
    Keys = {k1, k2}
    Accounts = {c1, c2}
    FacilityIds = {f1, f2}
    Borrowers = {b1, b2}
    Roles = {"OPERATOR", "UNDERWRITER"}
    Verdicts <- MCVerdicts
    RightKinds = {"LIEN"}
    DocKinds = {"LEASE_CONSENT"}
    MaxFlags = 1
    Refs = {r1, r2}
    Observations = {1, 2, 3}
    Statements <- MCStatements
    MaxRevision = 3
    Gross = 3
    Legs = {l1, l2}
    Directs = {d1}
    CashWorkers = {w1, w2}
    Source = 1
    LegAmount <- MCLegAmount
    Minimum = 2
    Amounts = {1, 2}
    MaxClaims = 3
    MaxLegs = 3
    MaxReports = 3
    Reportable <- MCReportable
    OpeningDebt = 2
    i1 = i1
    i2 = i2
    Items = {i1, i2}
    AsOf <- AsOfTimes
    Paid = {i2}
    Pushed = {i2}
    Workers = {v1, v2}
    PageSize = 1
    Overlap = 1
    MaxWindow = 2
    MaxAge = 2
    MaxSkew = 1
    MaxSends = 1
    RefetchWindow <- Refetch
    MaxTime = 3
SYMMETRY Alike
CONSTRAINT Bounded
INVARIANTS NothingSkipped CandidateReachesPublisher  ClaimsKept  
CHECK_DEADLOCK FALSE
