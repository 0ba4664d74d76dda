SPECIFICATION CTSpec
CONSTANTS
    Rids = {r1}
    Regions = {}
    Bound = {}
    Budget <- MCStop
    MaxFaults = 1
    Prefetch = 2
    ChSize = 1
    BulkSize = 100
    UniqueIndex = TRUE
    Grace = 5
    AutoFlush = 10
    ExitDelay = 2
INVARIANTS
    GracefulExitSavesAll
CHECK_DEADLOCK FALSE
