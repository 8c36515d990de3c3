SPECIFICATION FairSpec
CONSTANTS
    a1 = a1
    a2 = a2
    Admin = {a1, a2}
    Nobody = Nobody
    MaxFaults = 2
    MaxEvents = 2
INVARIANT TypeOK
INVARIANT ReleasedIsOwn
INVARIANT CompleteIsClaimed
INVARIANT DoneIsDurable
INVARIANT CompleteIsClosed
PROPERTY WizardCanBeRepeated
