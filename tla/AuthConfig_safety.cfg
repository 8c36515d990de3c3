SPECIFICATION Spec
CONSTANTS
    w1 = w1
    w2 = w2
    k1 = k1
    k2 = k2
    r1 = r1
    r2 = r2
    Worker = {w1, w2}
    Key = {k1, k2}
    Server = {r1}
    NoServer = NoServer
    MaxRequests = 2
    MaxFailures = 1
    MaxCrashes = 1
SYMMETRY Symmetry
INVARIANT TypeOK
INVARIANT DoorOpen
PROPERTY AnswersAreTrue
INVARIANT ShownIsVerified
CHECK_DEADLOCK FALSE
