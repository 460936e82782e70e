SPECIFICATION MonitorSpec
CONSTANTS
    importer = importer
    w1 = w1
    Id = {d1, d2, d3}
    Window = {w1, importer}
    Importer = importer
    Key = {h1}
    Legacy = {l1}
    MaxDefinitions = 2
    ReusesIds = FALSE
    MaxBodies = 3
    MaxChanges = 3
    MaxCrashes = 1
    MaxLateBodies = 2
    NoDef = NoDef
    NoKey = NoKey
    NoLegacy = NoLegacy
    NoWindow = NoWindow
SYMMETRY Alike
CHECK_DEADLOCK FALSE
INVARIANTS
    HotkeyUnique
    WithinLimit
    ImportedOnce
    MonitorIsCurrent
    NoSupersededEvent
PROPERTIES
    NoLostUpdate
