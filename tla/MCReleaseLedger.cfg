SPECIFICATION Spec
CONSTANTS
    p1 = p1
    p2 = p2
    r1 = r1
    r2 = r2
    t1 = t1
    Procs = {p1, p2}
    Routes = {r1}
    Toks = {t1}
    Prices = {1, 2}
    MaxPrice = 2
    HostingCosts = {1}
    Purposes = {"cell"}
    Reserves = {1}
    MaxOverrun = 1
    RouteRequests = 0
    TotalRequests = 0
    LiabilityUSD = 2
    RouteLiabilityUSD <- MCRouteLiability
    WindowRequests = 0
    MaxLines = 5
SYMMETRY MCSymmetry
CHECK_DEADLOCK FALSE
INVARIANTS AdmittedWithinCaps SentIsCharged AdmittedAtCheckedPrice
