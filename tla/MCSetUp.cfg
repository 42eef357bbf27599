SPECIFICATION SetUpSpec
CONSTANTS
    None = None
    NaN = NaN
    a = a
    b = b
    ra = ra
    Subjects = {"ceiling", "schedule", "dates", "configuration", "choice", "start", "session"}
    Hosts <- MCHosts
    Running <- MCRunning
    First <- MCFirst
    Files <- MCFiles
    Keys = {1, 2}
    Prices = {1, 2}
    Dates = {1, 2}
    Limits = {2}
    MaxLines = 3
    MaxStarts = 2
    MaxEdits = 3
    PriceBound = 2
    CountBound = 1920
    Float64 <- MCFloat64
    CeilingInputs <- MCCeilingInputs
    ScheduleInputs <- MCScheduleInputs
    PilotInputs <- MCPilotInputs
    Configurations <- MCConfigurations
    HeaderNames <- MCHeaderNames
    Instants = {0, 1, 2, 3, 4, 5, 6}
    SlotHours = {0, 20}
    Requests = 1
    Low = 512
    High = 1024
    Documented <- MCRunning
    Responses <- MCResponses
    MaxRecords = 4
    Sessions <- MCRunning
    Reserves = {ra}
    SessionDay <- MCSessionDay
    Slot <- MCSlot
    Tolerance = 1
    MaxGap = 0
    MaxTime = 3
    MaxProcs = 2
    Configs <- MCConfigs
INVARIANTS VerdictSound ScheduleSound ConfigurationSound ChoiceSound StartSound SessionsSound
CHECK_DEADLOCK FALSE
