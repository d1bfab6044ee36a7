SPECIFICATION Spec

CONSTANTS
    Rates = {0, 2, 20}
    Durations = {0, 2}
    TicksPerSecond = 10
    Idle = 36000
    CallsStop = TRUE
    Punctual = FALSE
    MaxTime = 4
    MaxCalls = 2

CHECK_DEADLOCK FALSE

INVARIANTS
    TypeOK
    TickerFollowsRate
    OneRamp
    RateWithinRamp
    FinishedRampHoldsTo
