SPECIFICATION Spec
CONSTANTS
    DayLength = 4
    Shift = 1
    SpringAt = 29
    FallAt = 46
    LastInstant = 60
    NoTime = NoTime
CHECK_DEADLOCK FALSE
INVARIANTS
    RangeIsIntervalsAlways
