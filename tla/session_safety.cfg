\* A session that has closed stays as it is: CHECK_DEADLOCK FALSE.
SPECIFICATION SafeSpec
CONSTANTS
    FrameKinds <- AnyFrame
    MaxFrames = 3
    GracefulShutdown = TRUE
    DispatchOnConnect = FALSE
    AppCloses <- Any
    HandlerCloses <- Any
    InitiateCloses <- Any
    StartsWhenActive = TRUE
INVARIANTS
    NotifiedOnce
    QuietWhenNotified
    DrainDeliversAll
    DeliveredInOrder
    IInv
PROPERTIES
    ContractSafety
CHECK_DEADLOCK FALSE
