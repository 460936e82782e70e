SPECIFICATION Spec
CONSTANTS
    Automation = {a1}
    Rule <- Weekly
    DayLength = 4
    Shift = 1
    SpringAt = 57
    FallAt = 70
    Grace = 1
    Sleep = {1}
    LastInstant = 45
    MaxEdits = 1
    MaxClears = 1
    MaxCrashes = 0
    MaxFaults = 0
    MaxMishaps = 1
    NoTime = NoTime
    NoDef = NoDef
CHECK_DEADLOCK FALSE
INVARIANTS
    OncePerSlot
