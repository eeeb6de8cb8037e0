\* A session that has closed stays as it is: CHECK_DEADLOCK FALSE.
SPECIFICATION Spec
CONSTANTS
    FrameKinds <- WellBehaved
    MaxFrames = 3
    GracefulShutdown = TRUE
    DispatchOnConnect = TRUE
    AppCloses <- Any
    HandlerCloses <- Never
    InitiateCloses <- Any
    StartsWhenActive = TRUE
PROPERTIES
    NoDispatchAfterNotify
    CloseNotifies
    TasksEnd
    ContractLiveness
CHECK_DEADLOCK FALSE
