\* Two months that end, two postings, a request at a time beside the worker.
CONSTANTS
    Institutions = {i1}
    Postings = {p1, p2}
    Worker = worker
    Requests = {r1}
    None = None
    MaxMonth = 3
    MaxRequests = 2
    MaxFailures = 1
SPECIFICATION MCSpec
INVARIANTS TypeOK LaterVersionsSeeMore CatchUpIsComplete
PROPERTY EveryMonthSummed
CHECK_DEADLOCK FALSE
