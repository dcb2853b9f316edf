SPECIFICATION Spec
CONSTANTS
    Api = {a1}
    Workers = {w1}
    Cancellers = {c1}
    NoSession = NoSession
    Artifacts = {f1, f2}
    Modes = {"submit"}
    Ops = {"plain"}
    AutoRefresh = FALSE
    AllowCrash = FALSE
    MaxSent = 1
    MaxVersion = 4
PROPERTIES
    CancellationIsFinal
CHECK_DEADLOCK FALSE
