\* Threads whose calls have returned, or wait for one another, stop: CHECK_DEADLOCK FALSE.
SPECIFICATION SSpec
CONSTANTS
    t1 = t1
    t2 = t2
    t3 = t3
    Threads = {t1, t2, t3}
    Closers = {t1, t2}
    PeerCloses = TRUE
INVARIANTS
    CloseReachesLoop
    CloseIsComplete
    SyncInv
PROPERTIES
    CloseReturnsUnlessStuck
CHECK_DEADLOCK FALSE
