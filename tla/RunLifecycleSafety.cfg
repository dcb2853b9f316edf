SPECIFICATION BothSpec
CONSTANTS
    Api = {a1, a2}
    Workers = {w1, w2}
    Cancellers = {c1}
    NoSession = NoSession
    Artifacts = {f1, f2}
    Modes = {"submit", "direct", "inline"}
    Ops = {"training", "plain"}
    AutoRefresh = FALSE
    AllowCrash = TRUE
    MaxSent = 2
    MaxVersion = 3
SYMMETRY Symmetry
INVARIANTS
    ClaimedOnce
    SingleExecutor
    FailedLeavesNoFiles
PROPERTIES
    ContractSpec
CHECK_DEADLOCK FALSE
