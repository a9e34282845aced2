\* One grade with two appeals, or prerequisites of three courses and registrations, or
\* class meetings and the students at risk.
CONSTANTS
    c1 = c1  c2 = c2  c3 = c3  o1 = o1  o2 = o2  a1 = a1  a2 = a2  a3 = a3
    m1 = m1  m2 = m2  m3 = m3  m4 = m4
    Courses = {c1, c2, c3}
    Offerings = {o1, o2}
    CourseOf <- TwoOfferings
    Assessments = {a1, a2, a3}
    OfferingOf <- Graded
    Meetings = {m1, m2, m3, m4}
    OfferingAt <- Held
    Students = {s1}
    Workers = {w1, w2}
    Appeals = {p1, p2}
    Inputs = {0, 1, 3}
    MaxScore = 2
    None = None
SPECIFICATION MCSpec
SYMMETRY Symmetry
INVARIANTS StandingTypeOK LogExplainsScore OneAppealAtATime CyclesAreRaced RegisteredHadPassed RiskListIsFair
CHECK_DEADLOCK FALSE
