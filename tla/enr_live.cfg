\* Refinement and liveness: no symmetry, rival publishers with batches of one, a queue
\* declared late.
CONSTANTS
    s1 = s1  s2 = s2  k1 = k1  k2 = k2
    Places = {s1, s2}
    Keys = {k1, k2}
    KeyOf <- TwoKeys
    Events = {e1, e2}
    Requests = {r1}
    Publishers = {w1, w2}
    Handlers = {h1, h2}
    BatchSize = 1
    BoundAtStart = FALSE
    MaxFaults = 1
    None = None
SPECIFICATION FairSpec
PROPERTIES BillingIsAbstract BilledOrDeadLettered
CHECK_DEADLOCK FALSE
