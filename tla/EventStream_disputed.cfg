SPECIFICATION Spec
CONSTANTS
    e1 = e1
    e2 = e2
    w1 = w1
    w2 = w2
    d1 = d1
    d2 = d2
    Events = {e1, e2}
    Calls = {d1, d2}
    Workers = {w1, w2}
    MaxAttempts = 3
    ClaimCount = 10
    MaxEntries = 2
    MaxExpiries = 0
    MaxCrashes = 0
    None = None
INVARIANT NotDropped
INVARIANT AttemptsAreBounded
CHECK_DEADLOCK FALSE
