SPECIFICATION Spec
CONSTANTS
    RunIds = {r1}
    u1 = u1
    u2 = u2
    Users = {u1, u2}
    Sessions = {s1, s2}
    Procs = {p1, p2}
    None = None
    Published = {"requirements", "design", "document"}
    Approvers <- MCApprovers
    BornAt = {"development"}
    MaxEvents = 2
    MaxDecisions = 2
INVARIANT OneDecisionPerGate
PROPERTY ClosedForItsOwnStage
PROPERTY FinishedStaysFinished
PROPERTY ParkedIsNotSwept
CHECK_DEADLOCK FALSE
