SPECIFICATION Spec
CONSTANTS
    LogoutMayFail = TRUE
    AuthErrors = TRUE
    MaxCalls = 2
    WarnTicks <- MCWarnTicks
INVARIANT TypeOK
INVARIANT CachedOwnerIsStored
