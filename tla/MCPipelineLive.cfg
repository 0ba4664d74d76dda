SPECIFICATION FairSpec
CONSTANTS
    NoRid = NoRid
    Rids = {r1, r2}
    Workers = {w1}
    Goroutines = {g1}
    Regions = {eu, gone}
    Bound = {eu}
    Region <- MCRegion
    Budget <- MCCalm
    MaxFaults = 1
    Prefetch = 2
    ChSize = 1
    MaxAttempts = 1
    BulkSize = 2
    UniqueIndex = TRUE
PROPERTIES
    EventuallySaved
    MarkerCleared
CHECK_DEADLOCK FALSE
