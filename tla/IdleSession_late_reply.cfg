\* Every logout is accepted and no authentication error occurs: a session
\* ends by logout, idle timeout or a forced password change.
SPECIFICATION Spec
CONSTANTS
    LogoutMayFail = FALSE
    AuthErrors = FALSE
    MaxCalls = 2
    WarnTicks <- MCWarnTicks
PROPERTY ReplyEndsOnlyItsSession
