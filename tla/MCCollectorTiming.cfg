SPECIFICATION CTFairSpec
CONSTANTS
    Rids = {r1, r2}
    Regions = {}
    Bound = {}
    Budget <- MCFaults
    MaxFaults = 2
    Prefetch = 2
    ChSize = 1
    BulkSize = 2
    UniqueIndex = TRUE
    Grace = 2
    AutoFlush = 2
    ExitDelay = 1
INVARIANTS
    TimingInv
    GracefulExitSavesAll
PROPERTIES
    CollectorShutdownCompletes
    PartialBatchSaved
CHECK_DEADLOCK FALSE
