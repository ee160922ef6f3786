SPECIFICATION Spec
CONSTANTS
    drone = drone
    self = self
    station = station
    Capacity = 2
    Endpoints = {station}
    Self = self
    ConfiguredPeer = {station}
    LearnPeer = FALSE
    SocketCapacity = 2
    MaxSent = 1
    MaxArrived = 8
    MaxNoise = 0
    MaxRefused = 0
    MaxStarts = 1
CHECK_DEADLOCK FALSE
INVARIANT
    MemoryIsFlat
