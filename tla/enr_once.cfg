\* Safety: two places, two enrollment ids, two handlers, two publishers.
CONSTANTS
    s1 = s1  s2 = s2  k1 = k1  k2 = k2
    Places = {s1, s2}
    Keys = {k1, k2}
    KeyOf <- TwoKeys
    Events = {e1, e2}
    Requests = {r1, r2}
    Publishers = {w1, w2}
    Handlers = {h1, h2}
    BatchSize = 2
    BoundAtStart = TRUE
    MaxFaults = 2
    None = None
SPECIFICATION Spec
SYMMETRY Symmetry
INVARIANTS BilledOnce NothingLost InboxMeansInvoiced
CHECK_DEADLOCK FALSE
