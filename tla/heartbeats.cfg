\* Time stops when the session closes: CHECK_DEADLOCK FALSE.
SPECIFICATION HSpec
CONSTANTS
    ClientInterval = 2
    ServerInterval = 9
    Tolerated = 1
    MaxLate = 1
    MaxDelay = 2
    MaxInFlight = 2
INVARIANTS
    SilenceBounded
    HealthyPeerKept
    SilenceDetected
    HeartbeatInv
PROPERTIES
    DeadPeerDropped
CHECK_DEADLOCK FALSE
