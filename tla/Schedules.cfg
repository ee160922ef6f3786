SPECIFICATION Spec
CONSTANTS
    TickPeriod = 2
    TelemetryPeriod = 5
    Latenesses <- MCLatenesses
    Horizon = 40
INVARIANT
    RateDoesNotDrift
PROPERTIES
    NoCatchUpBurst
    NoCatchUpTicks
