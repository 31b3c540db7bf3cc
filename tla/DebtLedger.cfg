SPECIFICATION MirrorSpec
CONSTANTS
    Facilities = {f1, f2}
    Busy = f1
    Accounts = {w1}
    States = {ACTIVE, DEFAULTED}
    Active = ACTIVE
    Rates = {1, 2}
    Amounts = {0, 1, 2}
    Denom = 3
    MaxPrincipal = 3
    MaxTime = 2
    MaxTotal = 2
    MaxCharged = 1
CONSTRAINT Bounded
INVARIANTS InterestConservation DebtConservation MirrorsAgree
PROPERTIES CashMovesDebt
CHECK_DEADLOCK FALSE
