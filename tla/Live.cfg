SPECIFICATION LiveSpec
CONSTANTS
    Api = {a1}
    Workers = {w1, w2}
    Cancellers = {c1}
    NoSession = NoSession
    Artifacts = {f1, f2}
    Modes = {"submit", "direct", "inline"}
    Ops = {"training", "plain"}
    AutoRefresh = FALSE
    AllowCrash = FALSE
    MaxSent = 2
    MaxVersion = 3
    Memories = {m1}
    Callers = {u1, u2}
    RecallLimit = 1
    Jobs = {j1, j2, j3, j4}
    PoolSize = 2
    MaxPending = 3
    CorpusSize = 3
    MaxSourceChanges = 0
    MapBatch = 2
    FanIns = {1, 2}
    Payload = 4
    NodeSizes = {1, 3}
PROPERTIES
    ClaimedRunSettles
    PublishedRunLeavesQueue
    ForgottenFades
    AcceptedJobRuns
    ReductionEnds
CHECK_DEADLOCK FALSE
