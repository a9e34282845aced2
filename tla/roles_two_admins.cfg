\* Two admins demote each other at the same time.
CONSTANTS
    Users = {a1, a2}
    FirstAdmins = {a1, a2}
    Applicants = {}
    StaffRoles = {}
    Workers = {w1, w2}
    None = None
SPECIFICATION Spec
SYMMETRY Symmetry
INVARIANTS AdminRemains
