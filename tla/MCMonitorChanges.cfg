SPECIFICATION Spec
CONSTANTS
    Checks = {c1, c2}
    MaxId = 3
    MaxStarts = 2
    ReadLimit = 2
    ChSize = 1
    BulkSave = 2
SYMMETRY SameChecks
INVARIANTS
    EveryChangeRecorded
CHECK_DEADLOCK FALSE
