SPECIFICATION Spec
CONSTANTS
    drone = drone
    gcs = gcs
    other = other
    Ports <- MCPorts
    Peer <- MCPeer
    Learning <- MCLearning
    Ratios <- MCRatios
    MaxSent = 3
    MaxCreated = 4
INVARIANTS
    PointersAreAlive
    CountersAddUp
PROPERTY
    LinksAreLossyFifos
CHECK_DEADLOCK FALSE
