SPECIFICATION FairSpec
CONSTANTS
    c1 = c1
    c2 = c2
    c3 = c3
    home = home
    office = office
    None = None
    Conns = {c1, c2, c3}
    Addresses = {home, office}
    AddressOf <- TwoAddresses
    PerAddress = 1
    MaxConnections = 1
CHECK_DEADLOCK FALSE
INVARIANTS
    CountIsFaithful
    LimitsHeldUnlessRaced
PROPERTIES
    ClosedIsReleased
