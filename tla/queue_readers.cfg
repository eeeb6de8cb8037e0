\* A queue that has stopped stays as it is: CHECK_DEADLOCK FALSE.
SPECIFICATION QSafeSpec
CONSTANTS
    Readers = {r1, r2}
    Dispatchers = {d1, d2}
    MaxMessages = 3
    Dispatched = TRUE
    OwnerCalls = {"pause", "buffer", "discard"}
    NoReader = NoReader
    NoDispatcher = NoDispatcher
    ReadersGiveUp = TRUE
    OwnerGivesUp = TRUE
INVARIANTS
    QInv
    TakenInOrder
    NothingLost
SYMMETRY Alike
CHECK_DEADLOCK FALSE
