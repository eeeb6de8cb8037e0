\* A queue that has stopped stays as it is: CHECK_DEADLOCK FALSE.
SPECIFICATION QSpec
CONSTANTS
    Readers = {r1}
    Dispatchers = {d1, d2}
    MaxMessages = 3
    Dispatched = FALSE
    OwnerCalls = {"pause", "discard"}
    NoReader = NoReader
    NoDispatcher = NoDispatcher
    ReadersGiveUp = FALSE
    OwnerGivesUp = FALSE
INVARIANTS
    QInv
PROPERTIES
    NoDispatchAfterStop
    StopReleases
    WaitingGetServed
CHECK_DEADLOCK FALSE
