SPECIFICATION Spec

CONSTANTS
    Rates = {0, 2, 10}
    Durations = {0, 2}
    TicksPerSecond = 10
    Idle = 36000
    CallsStop = FALSE
    Punctual = TRUE
    MaxTime = 4
    MaxCalls = 2

CHECK_DEADLOCK FALSE

INVARIANTS
    ConstantRateStays
