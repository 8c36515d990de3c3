SPECIFICATION Spec
CONSTANTS
    p1 = p1
    p2 = p2
    p3 = p3
    NoPackage = NoPackage
    Package = {p1, p2, p3}
    Version <- Releases
    Factory = 1
    Browser = {b1, b2}
    Job = {j1, j2}
    MaxKills = 2
INVARIANT TypeOK
INVARIANT LockKept
INVARIANT ReportedTrue
PROPERTY PromiseKept
CHECK_DEADLOCK FALSE
SYMMETRY Symmetry
