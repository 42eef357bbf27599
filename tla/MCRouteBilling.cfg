SPECIFICATION Spec
CONSTANTS
    C = 1
    Second = {}
    Start <- MCStart1
    Tolerance = 0
    Horizon = 3
    MaxReruns = 1
    MaxFaults = 0
    MaxRev = 0
    Statuses = {"ok"}
    Events = {"emfile", "billing"}
INVARIANTS BillingStopsRoute
