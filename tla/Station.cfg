SPECIFICATION Spec
CONSTANTS
    standby = standby
    active = active
    near = near
    far = far
    nothing = nothing
    HalfExtent = 3
    Ceiling = 5
    ConnectionTimeout = 4
    ManualPeriod = 3
    Forgotten = 5
    Frames = {1, 2, 5}
    Statuses = {standby, active}
    Positions = {near, far}
    Targets <- MCTargets
    Sticks <- MCSticks
    NoTelemetry = nothing
INVARIANTS
    ConnectedMeansHeard
    ReleaseIsNeverSwallowed
PROPERTIES
    ManualIsRateLimited
    LossIsAnnouncedOnce
