SPECIFICATION Spec
CONSTANTS
    FrameKinds <- WithEnd
    MaxFrames = 2
    GracefulShutdown = TRUE
    DispatchOnConnect = TRUE
    AppCloses <- Never
    HandlerCloses <- Never
    InitiateCloses <- Never
    StartsWhenActive = TRUE
PROPERTIES
    CloseNotifies
CHECK_DEADLOCK FALSE
