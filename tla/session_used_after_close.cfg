SPECIFICATION SafeSpec
CONSTANTS
    FrameKinds <- OnlyMessages
    MaxFrames = 2
    GracefulShutdown = TRUE
    DispatchOnConnect = TRUE
    AppCloses <- Never
    HandlerCloses <- Plain
    InitiateCloses <- Never
    StartsWhenActive = TRUE
PROPERTIES
    NoDispatchAfterNotify
CHECK_DEADLOCK FALSE
