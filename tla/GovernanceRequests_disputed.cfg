SPECIFICATION Spec
CONSTANTS
    dev = dev
    arch = arch
    pa = pa
    pa2 = pa2
    bu = bu
    org = org
    stranger = stranger
    t1 = t1
    odd = odd
    People = {dev, arch, pa, pa2, bu, org, stranger}
    DeliveryRoles = {"developer", "architect"}
    Role <- RoleOf
    InScope = {dev, arch, pa, pa2, bu}
    Targets = {t1, odd}
    Owner <- OwnerOf
    Requests = {r1, r2}
    Types = {"agent_access", "other"}
    Names <- NamesOf
    Sessions = {s1, s2}
    Project = project
    None = None
SYMMETRY Symmetry
INVARIANT AnsweredByTwoPeople
INVARIANT CountIsTiersClimbed
INVARIANT ApprovalTookEffect
PROPERTY CurrentApproverDecides
CHECK_DEADLOCK FALSE
