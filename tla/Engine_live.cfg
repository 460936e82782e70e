SPECIFICATION FairSpec
CONSTANTS
    a1 = a1
    a2 = a2
    e1 = e1
    e2 = e2
    Automation = {a1, a2}
    Event = {}
    Run = {r1, r2}
    Ticket = {k1, k2}
    NumSteps = 1
    QuickAction <- OnlyA1
    Dangerous <- OnlyA1
    AskFirst = {}
    Chained = {}
    MaxActive = 2
    Capacity = 1
    MaxCrashes = 1
    MaxFaults = 0
    NoRow = NoRow
    NoTicket = NoTicket
    NoRun = NoRun
    NoEvent = NoEvent
CHECK_DEADLOCK FALSE
PROPERTIES
    Settles
    CancelSettles
