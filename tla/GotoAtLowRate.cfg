SPECIFICATION FairSpec
CONSTANTS
    HorizontalSpeed = 2
    ClimbSpeed = 2
    LandSpeed = 1
    TakeoffAltitude = 5
    DisarmAltitude = 2
    ArrivalTolerance = 2
    ManualTimeout = 2
    HalfExtent = 20
    Ceiling = 6
    FullStick = 2
    Ticks = {3}
    Targets <- MCCoarseTargets
    Sticks <- MCFewSticks
PROPERTIES
    GotoArrives
