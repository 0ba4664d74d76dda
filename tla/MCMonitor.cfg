SPECIFICATION FairSpec
CONSTANTS
    Checks = {c1, c2}
    MaxId = 3
    MaxStarts = 2
    ReadLimit = 2
    ChSize = 1
    BulkSave = 2
CONSTRAINT OneOfEachKind
INVARIANTS
    MonitorInv
    NoUpdateLost
    NothingPassedOver
    ChangesAccounted
PROPERTIES
    Settles
CHECK_DEADLOCK FALSE
