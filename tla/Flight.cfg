SPECIFICATION FairSpec
CONSTANTS
    HorizontalSpeed = 2
    ClimbSpeed = 2
    LandSpeed = 1
    TakeoffAltitude = 4
    DisarmAltitude = 2
    ArrivalTolerance = 2
    ManualTimeout = 2
    HalfExtent = 3
    Ceiling = 5
    FullStick = 3
    Ticks = {1, 2}
    Targets <- MCTargets
    Sticks <- MCSticks
INVARIANTS
    MotorsCutOnlyNearTheGround
    InsideFence
    NoLeftovers
    ManualOnlyWithFreshInput
    LogFollowsMode
    HonestAnswers
PROPERTIES
    MovesOnlyAsItsModeAllows
    ImplementsContract
    AutomaticPhasesEnd
    GotoArrives
