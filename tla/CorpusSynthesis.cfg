SPECIFICATION SynthesisSpec
CONSTANTS
    CorpusSize = 2
    MaxSourceChanges = 0
    MapBatch = 2
    FanIns = {2}
    Payload = 4
    NodeSizes = {1}
INVARIANT FailedMapIsOmitted
CHECK_DEADLOCK FALSE
