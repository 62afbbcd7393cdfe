SPECIFICATION Spec
CONSTANTS
    r1 = r1  d1 = d1  d2 = d2  a1 = a1
    Renewers = {r1}
    Dunners = {d1, d2}
    Admins = {a1}
    MaxPeriods = 1
    MaxAttempts = 2
    MaxRequests = 1
    MaxCrashes = 0
PROPERTIES
    FailedIsChased
CHECK_DEADLOCK FALSE
