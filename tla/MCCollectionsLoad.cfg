SPECIFICATION Spec
CONSTANTS
    Names = {"checks"}
    Loaders = {l1}
    Lines = 4
    PerSecond = 2
    BatchSize = 3
    FetchSize = 2
    MaxFaults = 1
    MaxRecords = 0
PROPERTIES
    LoadComplete
    SchedulerLoads
CHECK_DEADLOCK FALSE
