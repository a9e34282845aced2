\* Safety: two offerings, of one instructor or two, and two requests at a time.
CONSTANTS
    Offerings = {o1, o2}
    Instructors = {i1, i2}
    Students = {s1}
    Rooms = {r1, r2}
    Times <- TouchingHours
    Workers = {w1, w2}
    None = None
SPECIFICATION Spec
SYMMETRY Symmetry
INVARIANTS StaffAndRoomsFree StudentsCanSit
