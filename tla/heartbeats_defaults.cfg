SPECIFICATION HSafeSpec
CONSTANTS
    ClientInterval = 3
    ServerInterval = 3
    Tolerated = 1
    MaxLate = 0
    MaxDelay = 1
    MaxInFlight = 2
INVARIANTS
    HealthyPeerKept
CHECK_DEADLOCK FALSE
