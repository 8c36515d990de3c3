SPECIFICATION Spec
CONSTANTS
    a1 = a1
    a2 = a2
    Admin = {a1, a2}
    Nobody = Nobody
    MaxFaults = 0
    MaxEvents = 1
INVARIANT CompleteStaysClosed
