SPECIFICATION FairSpec
CONSTANTS
    SendCap = 2
    ReceiveCap = 1
    Kinds = {"join", "leave"}
    Broadcasts = {"room", "status"}
    MaxStarts = 2
    MaxEvents = 3
CONSTRAINT OneSetLeaves
CHECK_DEADLOCK FALSE
INVARIANTS
    WrittenInOrder
    AcceptedOnce
    NoPanicWhileConnected
PROPERTIES
    ImplementsOutbox
    DepartingClientEnds
    AcceptedIsWritten
