SPECIFICATION MCSpec
CONSTANTS
    Processes = {p1, p2}
    First = p1
    WorkerId <- MCWorkerId
    MaxAttempts = 2
    RetryBudget = 1
    AttemptCap = 3
    MaxSetbacks = 2
INVARIANTS Fenced WorkNotLost
PROPERTIES StatusKept JobsEnd
CHECK_DEADLOCK FALSE
