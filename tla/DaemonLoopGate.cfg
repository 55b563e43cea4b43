CONSTANTS
    OutboundCapacity = 3
    EventCapacity = 2
    ReplayLength = 2
    MaxHeartbeats = 2
    MaxCompletions = 2
    MaxArrivals = 3
    MaxConnections = 4
SPECIFICATION Spec
INVARIANTS TypeOK TrafficFollowsItsSnapshot
CHECK_DEADLOCK FALSE
