SPECIFICATION Spec
CONSTANTS
    r1 = r1  d1 = d1  d2 = d2  a1 = a1
    Renewers = {r1}
    Dunners = {d1, d2}
    Admins = {a1}
    MaxPeriods = 1
    MaxAttempts = 2
    MaxRequests = 2
    MaxCrashes = 0
INVARIANTS
    PaidOnce
CHECK_DEADLOCK FALSE
