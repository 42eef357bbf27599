SPECIFICATION FairSpec
CONSTANTS
    Repetitions = 2
    TInject = 1
    ContainerOpTimeout = 1
    WaitDelay = 0
    Slack = 1
    Tolerance = 1
    ProbeRound = 1
    FaultEnd = 3
    RunEnd = 3
    MaxCrashes = 1
    MaxSkew = 1
INVARIANTS KillIsTheFault RestartsChain ReadyIsNew KillInItsRun
PROPERTIES CampaignEnds
