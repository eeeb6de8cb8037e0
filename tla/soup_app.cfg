\* A session that has closed stays as it is: CHECK_DEADLOCK FALSE.
SPECIFICATION ASpec
CONSTANTS
    FrameKinds <- MessagesAndEnd
    MaxFrames = 4
    GracefulShutdown = TRUE
    DispatchOnConnect = FALSE
    AppCloses <- Plain
    HandlerCloses <- Never
    InitiateCloses <- Plain
    StartsWhenActive = FALSE
    Roles <- AllRoles
    Reply = 5
    MaxSent = 2
    NotForApp <- ThirdIsUndecodable
INVARIANTS
    AInv
    QuietUnlessLate
    SequenceBracketed
    OutboundNumbers
    AppGetsAll
    AppCloseOrdered
PROPERTIES
    NoOrphanAtClose
    MonitorsNotReplaced
    LoginReturns
    AppCloseReturns
CHECK_DEADLOCK FALSE
