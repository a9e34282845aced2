\* Two requests at a time, in one part of the service per behaviour.
CONSTANTS
    e1 = e1  e2 = e2  u1 = u1  u2 = u2
    Workers = {w1, w2}
    Employees = {e1, e2}
    Positions = {p1}
    Candidates = {c1}
    Admins = {u1, u2}
    Schedules = {s1}
    Runs = {r1, r2}
    Periods = {m1}
    Leaves = {l1}
    Notes = {n1, n2}
    Users = {u1, u2}
    UserOf <- Accounts
    Items = {i1}
    Quantities = {0, 2}
    Deltas <- UpToTwo
    Shifts = {t1}
    Codes = {q1, q2}
    Scale = 20
    RateTables <- Tables
    MaxGross = 80
    None = None
SPECIFICATION MCSpec
SYMMETRY Symmetry
INVARIANTS
    TypeOK HiredMeansEmployed FourEyes PaidOnce ToldAsDecided StockAddsUp OldCodesStayDead
    NetIsFair
PROPERTIES ApprovalStands ClosedToApplicants RaiseNeverHurts
CHECK_DEADLOCK FALSE
