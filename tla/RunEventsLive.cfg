SPECIFICATION FairSpec
CONSTANTS
    Workers = {worker}
    Cancellers = {canceller}
    Nothing = Nothing
    MaxVersion = 3
    MaxWire = 1
    MaxBreaks = 1
INVARIANTS
    OutcomeShownWasCommitted
PROPERTIES
    OutcomeIsShown
CHECK_DEADLOCK FALSE
