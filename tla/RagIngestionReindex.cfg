SPECIFICATION FairSpec
CONSTANTS
    Requests = {r1}
    Workers = {w1}
    Jobs = {j1, j2}
    NoJob = NoJob
    MaxRevision = 1
    MaxSent = 1
    AllowDbErrors = FALSE
    AllowCrash = FALSE
PROPERTIES
    AcceptedReindexRuns
CHECK_DEADLOCK FALSE
