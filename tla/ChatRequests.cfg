SPECIFICATION Spec
CONSTANTS
    u1 = u1
    u2 = u2
    s1 = s1
    s2 = s2
    x = x
    y = y
    Users <- MCUsers
    Servers <- MCServers
    Texts <- MCTexts
    NewTexts <- MCNewTexts
    Limits = {1}
    EditWindow = 0
    MaxTime = 1
    MaxRequests = 3
    MaxFaults = 1
    Faults = {"refused", "lostReply"}
SYMMETRY MCSymmetry
CHECK_DEADLOCK FALSE
INVARIANTS
    RoomReusedUnlessRaced
    UnreadFollowsMessages
    CacheNeverAhead
PROPERTIES
    ReadStays
    ImplementsConversation
    LockedAfterFirstEdit
