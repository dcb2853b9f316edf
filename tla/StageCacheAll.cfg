SPECIFICATION FairSpec
CONSTANTS
    Callers = {c1, c2}
    Nobody = Nobody
    Small = FALSE
    UseObjects = TRUE
    MaxFaults = 1
INVARIANTS
    ProcessLockReleased
    AloneSucceeds
PROPERTIES
    ReleaseKeepsOthers
    CallsEnd
