SPECIFICATION Spec
CONSTANTS
    s1 = s1
    s2 = s2
    o = o
    m = m
    None = None
    Sessions = {s1, s2}
    Users = {o, m}
    Owners = {o}
    Proposers = {m}
    Lines <- McLines
    MaxRows = 2
SYMMETRY SessionsAlike
INVARIANT PublishHeals
INVARIANT ApprovedWasEvaluated
CHECK_DEADLOCK FALSE
