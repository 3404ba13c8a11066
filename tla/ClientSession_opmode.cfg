CONSTANTS
    LogoutMayFail = FALSE
    AuthErrors = FALSE
    MaxCalls = 2
    WarnTicks <- MCWarnTicks
    Modes <- MCModes
    MaxOpCalls = 1
    OpCallsMayFail = TRUE
    NoEvent = NoEvent
SPECIFICATION Spec
INVARIANT AuthenticatedIsWatched
PROPERTY TimedOutEndsSession
