CONSTANTS
    w1 = w1  w2 = w2  r1 = r1  r2 = r2  r3 = r3  u1 = u1  u2 = u2
    Window = {w1, w2}
    Route = {r1, r2, r3}
    Account = {u1, u2}
    Owner <- MCOwner
    MaxCached = 1
    MaxAttempts = 2
    None = None
    MaxAsks = 3
    MaxClears = 1
    MaxEvents = 1
    MaxActs = 4
SPECIFICATION Spec
INVARIANTS TypeOK ClearedStaysCleared PaidOnce
PROPERTIES PaidIsKept
SYMMETRY Symmetry
CHECK_DEADLOCK FALSE
