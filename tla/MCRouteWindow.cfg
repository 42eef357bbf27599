SPECIFICATION FairSpec
CONSTANTS
    C = 2
    Second = {1, 2}
    Start <- MCStart3
    Tolerance = 0
    Horizon = 5
    MaxReruns = 1
    MaxFaults = 1
    MaxRev = 2
    Statuses = {"ok"}
    Events = {}
INVARIANTS NeverTwice RerunsStand PagesAccept
PROPERTIES RecordsFinal WindowCloses
