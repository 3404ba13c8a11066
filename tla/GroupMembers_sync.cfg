CONSTANTS
    Users = {u1, u2}
    NoUser = NoUser
    MaxMembers = 2
    MaxSubmits = 1
    CallsMayFail = TRUE
SPECIFICATION Spec
INVARIANT TypeOK
CHECK_DEADLOCK FALSE
