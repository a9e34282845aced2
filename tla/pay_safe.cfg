\* Safety for each provider: two invoices, three attempts, two requests.
CONSTANTS
    Invoices = {i1, i2}
    Intents = {p1, p2, p3}
    Requests = {r1, r2}
    Worker = worker
    Gateways = {"test_double", "mtn_momo", "camerpay"}
    MaxFaults = 1
    None = None
SPECIFICATION Spec
SYMMETRY Symmetry
INVARIANTS LedgerAgrees NoDoubleCharge OutcomeIsProviders
