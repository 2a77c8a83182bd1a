SPECIFICATION SpecOfOne
CONSTANTS
    t1 = t1
    alice = alice
    admin = admin
    m1 = m1
    m2 = m2
    c1 = c1
    c2 = c2
    NoMagnet = NoMagnet
    Titles <- MCTitles
    Users <- MCOneUser
    Admins <- MCNobody
    Blind <- MCNobody
    Magnets <- MCTwoMagnets
    Clients <- MCOneClient
    MaxRows = 1
    MaxCrashes = 0
    MaxFaults = 0
INVARIANTS RepickIsHonoured
