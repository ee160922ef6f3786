SPECIFICATION FairSpec
CONSTANTS
    drone = drone
    self = self
    station = station
    Capacity = 2
    Endpoints = {drone}
    Self = self
    ConfiguredPeer <- Unknown
    LearnPeer = TRUE
    SocketCapacity = 2
    MaxSent = 3
    MaxArrived = 3
    MaxNoise = 1
    MaxRefused = 1
    MaxStarts = 2
CHECK_DEADLOCK FALSE
INVARIANTS
    NothingIsLostSilently
    StopFlushes
    FloodDoesNotDelayStop
    PeerIsHeard
PROPERTIES
    IsLossyFifo
    StopReturns
    SentMessagesLeave
