\* Safety: two admins, two applicants, one request at a time.
CONSTANTS
    Users = {a1, a2, p1, p2}
    FirstAdmins = {a1, a2}
    Applicants = {p1, p2}
    StaffRoles = {"lecturer"}
    Workers = {w1}
    None = None
SPECIFICATION Spec
SYMMETRY Symmetry
INVARIANT RoleFollowsDecision
PROPERTY LastAdminGuarded
CHECK_DEADLOCK FALSE
