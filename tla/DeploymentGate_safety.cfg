SPECIFICATION FairSpec
CONSTANTS
    Deployments = {d1}
    Users = {u1, u2, u3}
    Sessions = {s1, s2, s3}
    None = None
    MaxCrashes = 1
INVARIANT TypeOK
INVARIANT LaunchedAtMostOnce
INVARIANT FiredUnderFourEyes
INVARIANT HonestOutcome
INVARIANT UnfollowedIsInFlight
PROPERTY SpentStaysSpent
PROPERTY VerdictNeverContradicted
PROPERTY ImplementsTicket
PROPERTY ClaimIsResolved
CHECK_DEADLOCK FALSE
