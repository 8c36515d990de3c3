SPECIFICATION FairSpec
CONSTANTS
    s1 = s1
    s2 = s2
    r1 = r1
    r2 = r2
    t1 = t1
    t2 = t2
    Session = {s1}
    Root = {r1}
    Transcript = {t1}
    MaxSize = 2
    Totals = {1, 2}
    Retention = 1
    MaxFaults = 1
    MaxFills = 1
INVARIANT TypeOK
INVARIANT NothingLost
PROPERTY QuotaReached
PROPERTY ClosedAreForgotten
