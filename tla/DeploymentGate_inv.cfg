SPECIFICATION Spec
CONSTANTS
    Deployments = {d1}
    Users = {u1, u2, u3}
    Sessions = {s1, s2, s3}
    None = None
    MaxCrashes = 1
CHECK_DEADLOCK FALSE
INVARIANT GateInv
INVARIANT OutcomeInv
