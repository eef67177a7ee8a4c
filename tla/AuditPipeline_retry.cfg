SPECIFICATION FairSpec
CONSTANTS
    Procs = {p1, p2}
    Events = {e1, e2}
    Poison = {e1}
    None = None
    BatchSize = 1
    MaxTries = 2
    MaxStarts = 3
    MaxReplies = 1
INVARIANT NothingVanishes
INVARIANT RepeatsAreExplained
PROPERTY PoisonDoesNotWedge
CHECK_DEADLOCK FALSE
