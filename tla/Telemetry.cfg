SPECIFICATION LinkFairSpec
CONSTANTS
    active = active
    here = here
    nothing = nothing
    HalfExtent = 1
    Ceiling = 1
    ConnectionTimeout = 7
    ManualPeriod = 1
    Forgotten = 8
    Frames = {}
    Statuses = {active}
    Positions = {here}
    Targets = {}
    Sticks = {}
    NoTelemetry = nothing
    TelemetryPeriod = 2
    DroneGap = 2
    StationGap = 1
    MaxDelay = 1
    MaxLosses = 1
    Faults = {"losses", "outages"}
    OldestFrame <- MCOldestFrame
INVARIANTS
    SnapshotIsRecent
    ConnectedMeansPublished
PROPERTIES
    SurvivesLosses
    FindsOut
