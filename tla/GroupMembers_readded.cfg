CONSTANTS
    Users = {u1, u2}
    NoUser = NoUser
    MaxMembers = 2
    MaxSubmits = 1
    CallsMayFail = FALSE
SPECIFICATION Spec
INVARIANT SubmittedMembersAreStored
CHECK_DEADLOCK FALSE
