SPECIFICATION Spec
CONSTANTS
    SendCap = 2
    ReceiveCap = 1
    Kinds = {"join", "leave"}
    Broadcasts = {"room", "status"}
    MaxStarts = 2
    MaxEvents = 3
CHECK_DEADLOCK FALSE
INVARIANT NoPanic
