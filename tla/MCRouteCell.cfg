SPECIFICATION Spec
CONSTANTS
    C = 2
    Second = {1}
    Start <- MCStart2
    Tolerance = 0
    Horizon = 4
    MaxReruns = 1
    MaxFaults = 1
    MaxRev = 0
    Statuses = {"ok", "401"}
    Events = {"401", "mismatch", "emfile"}
INVARIANTS CountedIsSound AuthStopsAreRepeats
