SPECIFICATION TeleSpec
CONSTANTS
    HorizontalSpeed = 1
    ClimbSpeed = 1
    LandSpeed = 1
    TakeoffAltitude = 2
    DisarmAltitude = 1
    ArrivalTolerance = 0
    ManualTimeout = 3
    HalfExtent = 1
    Ceiling = 2
    FullStick = 1
    Ticks = {}
    Targets <- MCTargets
    Sticks <- MCSticks
    ManualPeriod = 1
    Clicks = {"Arm", "Disarm", "Land", "Goto"}
    DroneGap = 1
    StationGap = 1
    MaxDelay = 1
    MaxLosses = 1
    MaxCopies = 1
    MaxPending = 2
INVARIANTS
    LandingIsFinal
    DeadMansHandle
PROPERTY
    HeldStickFlies
