SPECIFICATION Spec
CONSTANTS
    People = {p1, p2}
    Payloads = {a, b}
    Consumers = {c1}
    Sessions = {s1, s2}
    None = None
    RowSecurity = FALSE
    MaxVersion = 2
SYMMETRY Symmetry
INVARIANT DecidedByAnother
INVARIANT ConsumedIsSignedOrGranted
PROPERTY ImplementsShelf
PROPERTY PublicationNeverGoesBackwards
CHECK_DEADLOCK FALSE
