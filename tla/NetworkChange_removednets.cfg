SPECIFICATION Spec
CONSTANTS
    n1 = n1
    n2 = n2
    t1 = t1
    t2 = t2
    w1 = w1
    w2 = w2
    Net = {n1, n2}
    Dhcp = Dhcp
    NoNet = NoNet
    Token = {t1}
    NoToken = NoToken
    Worker = {w1}
    Timely = TRUE
    MaxReboots = 0
    MaxFaults = 0
    MaxEdits = 2
    MaxLeases = 0
    MaxEvents = 2
SYMMETRY Symmetry
INVARIANT RemovedRefused
CHECK_DEADLOCK FALSE
