SPECIFICATION FairSpec
CONSTANTS
    n1 = n1
    n2 = n2
    t1 = t1
    t2 = t2
    w1 = w1
    w2 = w2
    Net = {n1, n2}
    Dhcp = Dhcp
    NoNet = NoNet
    Token = {t1, t2}
    NoToken = NoToken
    Worker = {w1, w2}
    Timely = TRUE
    MaxReboots = 1
    MaxFaults = 1
    MaxEdits = 0
    MaxLeases = 0
    MaxEvents = 0
INVARIANT TypeOK
INVARIANT UndoKept
INVARIANT UndoScheduled
INVARIANT ConfirmableIsApplied
PROPERTY RollbackRestores
PROPERTY PromiseKept
PROPERTY UnconfirmedRevertsIfUp
PROPERTY PendingResolvesIfUp
CHECK_DEADLOCK FALSE
