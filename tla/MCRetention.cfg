SPECIFICATION FairSpec
CONSTANTS
    Ids = {i1, i2, i3, i4}
    Retention = 2
    Batch = 2
    MaxLag = 1
    MaxTime = 5
    MaxErrors = 1
INVARIANTS
    IInv
PROPERTIES
    OnlyExpiredDeleted
    OldestFirst
    BacklogBounded
