SPECIFICATION FairSpec
CONSTANTS
    Caller = {c1, c2, c3}
    Statements = 6
    MaxFaults = 2
    MaxCrashes = 1
    Nobody = Nobody
CHECK_DEADLOCK FALSE
INVARIANTS
    OnePool
    SchemaBeforeUse
PROPERTIES
    NothingReplaced
    Retryable
