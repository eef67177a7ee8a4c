SPECIFICATION FairSpec
CONSTANTS
    e1 = e1
    e2 = e2
    w1 = w1
    w2 = w2
    d1 = d1
    d2 = d2
    Events = {e1, e2}
    Calls = {d1}
    Workers = {w1, w2}
    MaxAttempts = 2
    ClaimCount = 1
    MaxEntries = 1
    MaxExpiries = 0
    MaxCrashes = 2
    None = None
PROPERTY Settles
CHECK_DEADLOCK FALSE
