SPECIFICATION Spec
CONSTANTS
    a1 = a1
    a2 = a2
    Admin = {a1, a2}
    Nobody = Nobody
    MaxFaults = 2
    MaxEvents = 2
PROPERTY ClaimGoesForward
PROPERTY ClaimableStarts
PROPERTY VerdictKept
