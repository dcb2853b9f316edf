SPECIFICATION Spec
CONSTANTS
    Callers = {c1, c2}
    Nobody = Nobody
    Small = TRUE
    UseObjects = FALSE
    MaxFaults = 0
INVARIANTS
    ExclusiveToken
