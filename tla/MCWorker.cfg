SPECIFICATION WFairSpec
CONSTANTS
    NoRid = NoRid
    Rids = {r1, r2}
    Workers = {w1}
    Goroutines = {g1, g2}
    Regions = {eu}
    Bound = {eu}
    Region <- MCRegion
    Budget <- MCBudget
    MaxFaults = 3
    Prefetch = 2
    ChSize = 1
    MaxAttempts = 2
INVARIANTS
    WInv
    NoRequestLost
    OnceInv
    AnswersPaidByFaults
PROPERTIES
    ShutdownCompletes
CHECK_DEADLOCK FALSE
