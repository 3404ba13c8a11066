CONSTANTS
    Modes = {"MASTER", "NODE"}
    MaxOpCalls = 2
    OpCallsMayFail = FALSE
    NoEvent = NoEvent
SPECIFICATION Spec
INVARIANT LastEventIsCurrent
