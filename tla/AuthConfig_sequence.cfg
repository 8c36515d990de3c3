SPECIFICATION Spec
CONSTANTS
    w1 = w1
    w2 = w2
    k1 = k1
    k2 = k2
    r1 = r1
    r2 = r2
    Worker = {w1}
    Key = {k1, k2}
    Server = {r1, r2}
    NoServer = NoServer
    MaxRequests = 4
    MaxFailures = 1
    MaxCrashes = 1
SYMMETRY Symmetry
INVARIANT DoorOpen
INVARIANT ShownIsVerified
INVARIANT PlacesAgree
CHECK_DEADLOCK FALSE
