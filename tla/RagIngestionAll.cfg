SPECIFICATION FairSpec
CONSTANTS
    Requests = {r1, r2}
    Workers = {w1, w2}
    Jobs = {j1, j2}
    NoJob = NoJob
    MaxRevision = 2
    MaxSent = 2
    AllowDbErrors = TRUE
    AllowCrash = TRUE
INVARIANTS
    OneActiveJob
    IndexedIsComplete
PROPERTIES
    DeletedIsNotFound
    RevisionsStay
    StartedJobEnds
CHECK_DEADLOCK FALSE
