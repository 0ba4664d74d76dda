SPECIFICATION Spec
CONSTANTS
    NoRid = NoRid
    Rids = {r1, r2}
    Workers = {w1}
    Goroutines = {g1}
    Regions = {eu, gone}
    Bound = {eu}
    Region <- MCRegion
    Budget <- MCBudget
    MaxFaults = 1
    Prefetch = 2
    ChSize = 1
    MaxAttempts = 1
    BulkSize = 2
    UniqueIndex = TRUE
INVARIANTS
    PInv
    POnce
    LostStayInFlight
    NoResponseLost
    NeverFailsUnprovoked
PROPERTIES
    LedgerSpec
CHECK_DEADLOCK FALSE
SYMMETRY Symmetry
