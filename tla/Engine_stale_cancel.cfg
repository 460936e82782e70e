SPECIFICATION Spec
CONSTANTS
    a1 = a1
    a2 = a2
    e1 = e1
    e2 = e2
    Automation = {a1}
    Event = {e1}
    Run = {r1}
    Ticket = {k1}
    NumSteps = 1
    QuickAction <- None
    Dangerous <- None
    AskFirst = {}
    Chained = {}
    MaxActive = 1
    Capacity = 1
    MaxCrashes = 0
    MaxFaults = 0
    NoRow = NoRow
    NoTicket = NoTicket
    NoRun = NoRun
    NoEvent = NoEvent
CHECK_DEADLOCK FALSE
PROPERTIES
    OutcomeIsFinal
