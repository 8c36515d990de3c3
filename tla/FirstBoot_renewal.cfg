SPECIFICATION Spec
CONSTANTS
    a1 = a1
    a2 = a2
    Admin = {a1}
    Nobody = Nobody
    MaxFaults = 1
    MaxEvents = 0
INVARIANT IdentityRestored
