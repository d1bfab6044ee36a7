SPECIFICATION Spec

CONSTANTS
    Rates = {4, 5}
    Durations = {10}
    TicksPerSecond = 10
    Idle = 36000
    CallsStop = FALSE
    Punctual = TRUE
    MaxTime = 10
    MaxCalls = 1

CHECK_DEADLOCK FALSE

INVARIANTS
    RampKeepsTicking
