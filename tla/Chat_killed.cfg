CONSTANTS
    Sockets = {s1, s2}
    r1 = r1
    r2 = r2
    p1 = p1
    p2 = p2
    design = design
    testing = testing
    discovery = discovery
    Runs = {r1, r2}
    Projects = {p1, p2}
    Agents = {design, testing, discovery}
    Streaming = {design, discovery}
    ProjectOf <- MCProjectOf
    Roster <- MCRoster
    MaxFrames = 2
    None = None
SPECIFICATION Spec
INVARIANT NoExceptionKillsTheSocket
CHECK_DEADLOCK FALSE
