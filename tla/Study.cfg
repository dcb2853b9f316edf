SPECIFICATION StudySpec
CONSTANTS
    Docs = {1, 2}
    MaxUnits = 2
    MaxGeneration = 1
    Coders = {c1, c2}
    MaxCampaigns = 2
    Copies = {1, 2}
    MaxRows = 2
    Requests = {r1, r2}
    MaxPatches = 1
    PageSize = 2
    AllowErrors = TRUE
    GoldUnits = {1}
    GoldLabels = {"a", "b"}
    GoldCoders = {1, 2}
    Verdicts = {"yes", "no"}
    NoVerdict = "none"
    Policies <- MCPolicies
    MaxEdits = 3
    Analyses = {1, 2}
    Contents = {"t1", "t2"}
    Metadata = {"m1", "m2"}
    Nothing = "nothing"
    MaxChanges = 2
    Models = {v1, v2}
    Curators = {p1, p2}
    Targets = {"candidate", "production"}
    CorpusSize = 3
    MaxSourceChanges = 2
    MapBatch = 2
    FanIns = {2}
    Payload = 4
    NodeSizes = {1, 3}
    RowCount = 4
    Values = {1, 2, 3}
    Undated = {}
    Moment <- Moments
    Unknown = 0
    Labels = {x, y}
    TestFolds = 2
    ValFolds = 2
    OuterSplits = 3
    InnerSplits = 2
SYMMETRY Symmetry
CONSTRAINT RacesOrRounds
INVARIANTS
    CampaignEvidence
    PublishedIsWhole
    OutcomeHasItsSet
    EachGoldHeld
    NothingLeaks
    ServedIsRequested
    NoDocumentIsLost
    HashIsOfTheEvidence
PROPERTIES
    PeersHiddenWhileCoding
    SoleProduction
CHECK_DEADLOCK FALSE
