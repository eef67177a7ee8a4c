SPECIFICATION Spec
CONSTANTS
    Deployments = {d1}
    Users = {u1, u2, u3}
    Sessions = {s1, s2}
    None = None
    MaxCrashes = 1
SYMMETRY Symmetry
INVARIANT NothingSentIsTrue
CHECK_DEADLOCK FALSE
