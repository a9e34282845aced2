\* The test double, without symmetry: refinement and liveness.
CONSTANTS
    Invoices = {i1}
    Intents = {p1, p2}
    Requests = {r1, r2}
    Worker = worker
    Gateways = {"test_double"}
    MaxFaults = 1
    None = None
SPECIFICATION FairSpec
PROPERTIES IdealSettlement AttemptsResolve
