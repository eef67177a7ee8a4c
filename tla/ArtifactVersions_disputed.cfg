SPECIFICATION Spec
CONSTANTS
    People = {p1, p2}
    Payloads = {a, b}
    Consumers = {c1}
    Sessions = {s1, s2}
    None = None
    RowSecurity = TRUE
    MaxVersion = 3
SYMMETRY Symmetry
INVARIANT LoserRetries
INVARIANT OnePublishedVersion
INVARIANT ConsumersAreTold
PROPERTY DecisionStands
CHECK_DEADLOCK FALSE
