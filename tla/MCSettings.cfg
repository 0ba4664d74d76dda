SPECIFICATION Spec
CONSTANTS
    Programs = {p1}
    Preset <- MCPreset
    MaxCommands = 6
    MaxFaults = 2
INVARIANTS
    SettingsInv
    BootFindsAll
PROPERTIES
    RefusalExplained
