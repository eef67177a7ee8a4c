SPECIFICATION Spec
CONSTANTS
    e1 = e1
    e2 = e2
    w1 = w1
    w2 = w2
    d1 = d1
    d2 = d2
    Events = {e1}
    Calls = {d1, d2}
    Workers = {w1, w2}
    MaxAttempts = 1
    ClaimCount = 2
    MaxEntries = 2
    MaxExpiries = 1
    MaxCrashes = 1
    None = None
INVARIANT TypeOK
INVARIANT NothingLost
INVARIANT DeadAfterTries
INVARIANT OverlapMeansLate
INVARIANT EnteredOnce
SYMMETRY Symmetry
CHECK_DEADLOCK FALSE
