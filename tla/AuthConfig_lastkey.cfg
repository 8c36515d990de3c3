SPECIFICATION Spec
CONSTANTS
    w1 = w1
    w2 = w2
    k1 = k1
    k2 = k2
    r1 = r1
    r2 = r2
    Worker = {w1}
    Key = {k1}
    Server = {r1}
    NoServer = NoServer
    MaxRequests = 3
    MaxFailures = 0
    MaxCrashes = 1
INVARIANT LastKeyStays
CHECK_DEADLOCK FALSE
