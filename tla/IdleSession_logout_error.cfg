SPECIFICATION Spec
CONSTANTS
    LogoutMayFail = TRUE
    AuthErrors = FALSE
    MaxCalls = 2
    WarnTicks <- MCWarnTicks
PROPERTY TimedOutEndsSession
