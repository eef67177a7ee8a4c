SPECIFICATION BudgetsSpec
CONSTANTS
    org = org
    w1 = w1
    w2 = w2
    p1 = p1
    p2 = p2
    Org = org
    Units = {w1, w2}
    Projects = {p1, p2}
    UnitOf <- McUnitOf
    Editors = {e1, e2}
    Callers = {c1, c2}
    Servers = {a, b}
    Nothing = Nothing
    Offers <- McJudged
    Cap0 <- McCap0
    Present0 = {org, w1, w2, p1}
    Metered = {p1}
    Window <- McWindow
    FailClosed = FALSE
    PerTurn = 2
    MaxRequests = 3
    Home <- McHome
    e1 = e1
    e2 = e2
    c1 = c1
    c2 = c2
    a = a
    b = b
    MaxFaults = 1
    MaxTime = 1
INVARIANT AllocationHolds
INVARIANT EditAppliesAtOnce
CHECK_DEADLOCK FALSE
