SPECIFICATION Spec
CONSTANTS
    a1 = a1
    a2 = a2
    e1 = e1
    e2 = e2
    Automation = {a1, a2, a3}
    Event = {e1, e2}
    Run = {r1, r2, r3}
    Ticket = {k1, k2}
    NumSteps = 1
    QuickAction <- OnlyA1
    Dangerous <- OnlyA1
    AskFirst = {a2, a3}
    Chained = {e2}
    MaxActive = 2
    Capacity = 1
    MaxCrashes = 0
    MaxFaults = 0
    NoRow = NoRow
    NoTicket = NoTicket
    NoRun = NoRun
    NoEvent = NoEvent
SYMMETRY Ids
CHECK_DEADLOCK FALSE
INVARIANTS
    NoOverlap
    OutstandingBound
