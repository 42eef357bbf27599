SPECIFICATION Spec
CONSTANTS
    Streams = {s1}
    Tokens = 3
    Modes = {"stall", "error", "throttle", "stream_abort", "silent_hang"}
    AbortAfters = {0, 2}
    ScheduledAt = 1
    Duration = 3
    Delays = {0, 1}
    MaxFaults = 2
    LastArm = 4
    Late = 1
INVARIANTS EngineAgrees OnePieceEscapes ExemptRunsItsCount
PROPERTIES StreamsEnd
