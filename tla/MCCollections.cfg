SPECIFICATION Spec
CONSTANTS
    Names = {"checks", "responses", "heartbeats"}
    Loaders = {l1, l2}
    Lines = 2
    PerSecond = 1
    BatchSize = 2
    FetchSize = 2
    MaxFaults = 1
    MaxRecords = 2
INVARIANTS
    CollectionsInv
    IndexKept
PROPERTIES
    LoadComplete
SYMMETRY SameLoaders
CHECK_DEADLOCK FALSE
