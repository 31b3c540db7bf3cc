SPECIFICATION Spec
CONSTANTS
    Facilities = {f1, f2}
    Busy = f1
    SettlementIds = {s1}
    LossIds = {l1}
    NoLoss = none
    Amounts = {1, 2}
    MaxReceipt = 1
    Graces = {1}
    MaxTime = 3
    MaxDebt = 2
    MaxPaid = 3
CONSTRAINT Bounded
INVARIANTS CashConserved ApprovalCurrent
PROPERTIES CashInOrder
CHECK_DEADLOCK FALSE
