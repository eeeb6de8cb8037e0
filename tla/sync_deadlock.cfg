SPECIFICATION SSpec
CONSTANTS
    t1 = t1
    t2 = t2
    Threads = {t1, t2}
    Closers = {t1, t2}
    PeerCloses = FALSE
PROPERTIES
    CloseReturns
CHECK_DEADLOCK FALSE
