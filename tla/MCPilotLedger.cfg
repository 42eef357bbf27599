SPECIFICATION Spec
CONSTANTS
    p1 = p1
    p2 = p2
    r1 = r1
    r2 = r2
    t1 = t1
    Procs = {p1, p2}
    Routes = {r1, r2}
    Toks = {t1}
    Prices = {1}
    MaxPrice = 1
    HostingCosts = {}
    Purposes = {"window"}
    Reserves = {2}
    MaxOverrun = 0
    RouteRequests = 2
    TotalRequests = 3
    LiabilityUSD = 9
    RouteLiabilityUSD <- MCRouteLiability
    WindowRequests = 2
    MaxLines = 5
SYMMETRY MCSymmetry
CHECK_DEADLOCK FALSE
INVARIANTS Readable SendersHoldReservations
PROPERTIES TornStopsLedger ImplementsBudget
