SPECIFICATION Spec
CONSTANTS
    Wallets = {w1, w2}
    StaffRoles = {"operator"}
    Exclusive = {"guardian"}
    OperationRoles = {"operator", "guardian"}
    Replicas = {x1, x2}
    MaxNonces = 2
    CommandKeys = {k1}
    Bodies = {b1}
    Rows = {1, 2}
    MaxEpoch = 1
    MaxTime = 1
    MaxVersion = 1
    MaxBorrowers = 2
    ChallengeTtl = 1
    SessionTtl = 1
    PageLimit = 1
    Claims = {a1}
    Changes = {}
    Releases = {a2}
    PartnerWorkers = {u1, u2}
    MaxRuns = 3
    Monitors = {m1, m2}
    MaxCases = 2
    RepeatAfter = 1
    MaxTicks = 1
    NativeFacilities = {f1, f2}
    Face = 2
    MaxSource = 5
    Payouts = {p1,p2}
    MinConfirmations = 2
    Required = 2
    MaxHeaderChain = 3
    RetargetPeriod = 5
    ScanBatch = 2
    MaxHeight = 5
    MaxBlocks = 5
    MaxFlight = 2
    Outputs = {o1,o2}
    SigRelayers = {r1,r2}
    Confirmations = 2
    MaxDepth = 2
    MaxClaims = 2
SYMMETRY Alike
CONSTRAINT Bounded
INVARIANTS AccessKept CommandsKept RecordedIsApplied CasesKept   
CHECK_DEADLOCK FALSE
