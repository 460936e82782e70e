SPECIFICATION MCSpec
CONSTANTS
    Configs <- AllConfigs
    Inputs <- AllInputs
    MaxCalls = 9
    FewCalls = 5
    None = None
CHECK_DEADLOCK FALSE
INVARIANTS
    TypeOK
    NoFalseDeparture
    DepartureIsSeen
