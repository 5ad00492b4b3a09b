SPECIFICATION Spec
CONSTANTS
    c1 = c1
    c2 = c2
    u1 = u1
    A = A
    B = B
    NoRoom = NoRoom
    Clients <- TwoClients
    Users <- OneUser
    UserOf <- SameUser
    Rooms <- TwoNamed
    Empty = Empty
    MaxPumps = 2
    MaxEvents = 3
CHECK_DEADLOCK FALSE
SYMMETRY Alike
INVARIANTS
    TypeOK
    OneNamedRoomIfSerial
    NoGhostWithoutJoin
    LastLeaverAnnounces
