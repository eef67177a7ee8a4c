SPECIFICATION Spec
CONSTANTS
    dev = dev
    arch = arch
    pa = pa
    pa2 = pa2
    bu = bu
    org = org
    stranger = stranger
    t1 = t1
    odd = odd
    People = {dev, arch, pa, bu, org}
    DeliveryRoles = {"developer", "architect"}
    Role <- RoleOf
    InScope = {dev, arch, pa, bu}
    Targets = {t1, odd}
    Owner <- OwnerOf
    Requests = {r1, r2}
    Types = {"agent_access", "model_credential", "role_assignment", "artifact_consumption"}
    Names <- NamesOf
    Sessions = {s1, s2}
    Project = project
    None = None
SYMMETRY Symmetry
INVARIANT GovernanceInv
CHECK_DEADLOCK FALSE
