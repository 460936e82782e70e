SPECIFICATION AllSpec
CONSTANTS
    DayLength = 4
    Shift = 1
    SpringAt = 29
    FallAt = 46
    LastInstant = 60
    NoTime = NoTime
    Value = {"", "x", "y"}
    Action = {p}
    Keep = 2
    MaxAge = 2
    Token <- Alphabet
    Reference <- References
    Letter <- Letters
CHECK_DEADLOCK FALSE
INVARIANTS
    NextIsTheFirst
    RangeIsIntervals
    ValidatedRenders
    ValuesAreData
    EventsFitTriggers
    PreflightIsEnough
    RetainsTheLatest
