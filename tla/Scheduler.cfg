SPECIFICATION FairSpec
CONSTANTS
    Automation = {a1, a2}
    Rule <- DailyAtOne
    DayLength = 4
    Shift = 1
    SpringAt = 9
    FallAt = 13
    Grace = 1
    Sleep = {3, 6}
    LastInstant = 16
    MaxEdits = 2
    MaxClears = 1
    MaxCrashes = 1
    MaxFaults = 1
    MaxMishaps = 2
    NoTime = NoTime
    NoDef = NoDef
CHECK_DEADLOCK FALSE
INVARIANTS
    OncePerKeptSlot
    SlotIsOfDefinition
PROPERTIES
    CatchUpOnce
    NoSlotLost
    DueMovesOn
