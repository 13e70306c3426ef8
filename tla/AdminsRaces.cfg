SPECIFICATION Spec
CONSTANTS
    Users = {s1, s2, a1}
    SuperAdmins = {s1, s2}
    Chosen = {s1}
    RoleIds = {role1, role2}
    RoleNames = {"admin", "superadmin", "lawyer"}
    Requests = {r1, r2}
    None = None
    RequestsFail = TRUE
SYMMETRY Symmetry
INVARIANTS IInv SuperAdminRemains SuperAdminsIntact StatusStands
PROPERTIES DeletedStaysDeleted
CHECK_DEADLOCK FALSE
