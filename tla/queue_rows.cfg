SPECIFICATION SpecOfAll
CONSTANTS
    t1 = t1
    alice = alice
    admin = admin
    m1 = m1
    m2 = m2
    c1 = c1
    c2 = c2
    NoMagnet = NoMagnet
    Titles <- MCTitles
    Users <- MCUsers
    Admins <- MCAdmins
    Blind <- MCOneUser
    Magnets <- MCOneMagnet
    Clients <- MCTwoClients
    MaxRows = 2
    MaxCrashes = 1
    MaxFaults = 1
SYMMETRY Symmetry
INVARIANTS UniqueActive ProcessingIsHeld AnswerIsMine
PROPERTIES SettledRows InFlightIsKept
