SPECIFICATION MavSpec
CONSTANTS
    HorizontalSpeed = 1
    ClimbSpeed = 1
    LandSpeed = 1
    TakeoffAltitude = 2
    DisarmAltitude = 1
    ArrivalTolerance = 0
    ManualTimeout = 1
    HalfExtent = 0
    Ceiling = 2
    FullStick = 16
    ManualScale = 2
    WireStep = 8
    Ticks = {1}
    Targets <- MCTargets
    Sticks <- MCSticks
    system_id = 1
    Others = {0, 2}
    Clicks = {"Arm", "Disarm", "Land", "Goto"}
    Raw <- MCRaw
    MaxUplink = 2
    MaxDownlink = 0
INVARIANTS
    StickArrives
    ShownIsReal
PROPERTY
    AnswersMatchReports
