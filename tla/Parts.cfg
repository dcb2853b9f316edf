SPECIFICATION PartsSpec
CONSTANTS
    Requests = {r1}
    Workers = {w1}
    Jobs = {j1}
    NoJob = NoJob
    MaxRevision = 2
    MaxSent = 2
    AllowDbErrors = FALSE
    AllowCrash = FALSE
    Questions = {q1}
    Users = {owner, member}
    Owner = owner
    NoEntry = {0}
    AllowSearchErrors = TRUE
    AllowCacheErrors = TRUE
    Chunks = {1, 2, 3, 4}
    DocOf <- MCDocOf
    RevOf <- MCRevOf
    HashOf <- MCHashOf
    SpansOf <- MCSpansOf
    ParentOf <- MCParentOf
    NoParent = 0
    RrfK = 60
    MaxList = 3
    TopK = 2
    MaxPerDocument = 1
    Budget = 7
    TextSize = 2
    ParentSize = 3
    Units = {1, 2}
    Coders = {1, 2, 3}
    Categories = {a, b}
    Missing = none
    Scale = 2
    UnitCount = 3
    DocumentCount = 2
    StratumCount = 2
    AnnotatorCount = 2
    MaxSample = 3
    Caps = {0, 1}
    NoCap = 0
    MaxRounds = 2
    Items = {1, 2, 3}
    Tokens = {p, q}
    TopKs = {0, 1, 2}
    MinScores <- MCMinScores
    NoPairs = nopairs
    Embedders = {e1, e2, e3}
    NoKey = NoKey
    NoOwner = NoOwner
    KeyOf <- MCKeyOf
    TextLists <- MCTextLists
INVARIANTS
    FoundWasServed
    ValidatedIsOneRevision
    ContextIsSound
    AnswerIsGrounded
    AgreementIsSound
    SampleIsFair
    EveryUnitIsDealt
    BoundedIsExact
    WaitersAreServed
PROPERTIES
    AnswersSettle
\* every part may come to rest
CHECK_DEADLOCK FALSE
