CONSTANTS
    r1 = r1
    r2 = r2
    None = None
    Releases = {r1, r2}
    MaxAttempts = 3
    CounterLimit = 4
    RetryLimit = 2
    MaxRestarts = 1
SPECIFICATION FairSpec
INVARIANTS TypeOK  BudgetHolds
PROPERTIES CallsReturn
CHECK_DEADLOCK FALSE
