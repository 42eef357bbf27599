SPECIFICATION EvidenceSpec
CONSTANTS
    None = None
    Bad = Bad
    a = a
    b = b
    Subjects = {"cell"}
    Answers <- MCAnswers
    ScoreRule <- MCScoreRule
    Hosted <- MCHosted
    Lag = 2
    WaitMax = 3
    DispatchTime = 4
    MaxDispatches = 1
    MaxCrashes = 1
    Results <- MCResults
    Edges <- MCEdges
    ConfidentialTarget = TRUE
    Failing = {}
    MaxFaults = 1
    Routes <- MCRoutes
    Permission <- MCRoutes
    Replication <- MCRoutes
    ConfidentialRoutes <- MCRoutes
    MaxDay = 5
    Weekend = {2}
    NoticeDays = 2
    MaxAttempts = 2
    Windows = {2}
    MaxSends = 2
    Length = 6
    Loads = {0, 2}
    WindowSizes = {1, 2}
    Holds = {0, 2}
    Baselines = {0, 100}
    Firsts = {0, 1}
    Timeouts = {5, 6, 7}
    EntryPct = 75
    ExitPct = 50
    Targets <- MCTargets
    Ruled = TRUE
    SourceModified = FALSE
    ClockRuns <- MCClockRuns
    RefreshRuns <- MCRefreshRuns
    BalanceRuns <- MCBalanceRuns
    OpFiles <- MCOpFiles
    Prices <- MCPrices
    Demand = 3
    MaxPrice = 2
    Second = 2
    MaxOffset = 2
    MaxTime = 5
    MaxCells = 2
    MaxProcesses = 2
INVARIANTS LabelledPasses
CHECK_DEADLOCK FALSE
