SPECIFICATION Spec
CONSTANTS
    a1 = a1
    a2 = a2
    e1 = e1
    e2 = e2
    Automation = {a1}
    Event = {e1}
    Run = {r1}
    Ticket = {k1, k2, k3}
    NumSteps = 2
    QuickAction <- BothDangerous
    Dangerous <- BothDangerous
    AskFirst = {a1}
    Chained = {}
    MaxActive = 2
    Capacity = 1
    MaxCrashes = 1
    MaxFaults = 2
    NoRow = NoRow
    NoTicket = NoTicket
    NoRun = NoRun
    NoEvent = NoEvent
SYMMETRY Ids
CHECK_DEADLOCK FALSE
INVARIANTS
    AtMostOnce
    SeparateConfirmation
    StopOnFailure
    CancelReachesTask
PROPERTIES
    NoResurrection
    OnlyFailuresOrphan
    ImplementsContract
