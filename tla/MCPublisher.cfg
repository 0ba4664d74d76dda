SPECIFICATION FairSpec
CONSTANTS
    Goroutines = {g1, g2, g3}
    NoOne = NoOne
    MaxCalls = 4
    MaxLosses = 3
INVARIANTS
    PublisherInv
    SurvivesLoss
PROPERTIES
    ContractKept
    EveryCallEnds
CHECK_DEADLOCK FALSE
