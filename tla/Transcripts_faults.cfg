SPECIFICATION Spec
CONSTANTS
    s1 = s1
    s2 = s2
    r1 = r1
    r2 = r2
    t1 = t1
    t2 = t2
    Session = {s1, s2}
    Root = {r1}
    Transcript = {t1}
    MaxSize = 1
    Totals = {1}
    Retention = 1
    MaxFaults = 2
    MaxFills = 1
INVARIANT TypeOK
INVARIANT NothingLost
INVARIANT InductiveInv
