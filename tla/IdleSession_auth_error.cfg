SPECIFICATION Spec
CONSTANTS
    LogoutMayFail = FALSE
    AuthErrors = TRUE
    MaxCalls = 2
    WarnTicks <- MCWarnTicks
INVARIANT AuthenticatedIsWatched
