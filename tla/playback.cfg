SPECIFICATION SpecOfAll
CONSTANTS
    p1 = p1
    p2 = p2
    p3 = p3
    movie = movie
    r1 = r1
    r2 = r2
    t1 = t1
    alice = alice
    bob = bob
    m1 = m1
    m2 = m2
    c1 = c1
    Nobody = Nobody
    NoKey = NoKey
    NoRelease = NoRelease
    NoMagnet = NoMagnet
    Calls <- MCThreeCalls
    Keys <- MCKeys
    Releases <- MCTwoReleases
INVARIANTS SingleResolve
PROPERTIES KeepsPromise WaitersAreServed RequestsSettle
