SPECIFICATION SpecOfAll
CONSTANTS
    n1 = n1
    n2 = n2
    films = films
    k1 = k1
    k2 = k2
    h1 = h1
    h2 = h2
    p1 = p1
    p2 = p2
    none = none
    Names <- MCNames
    Libraries <- MCLibraries
    Tokens <- MCTokens
    Handlers <- MCTwoHandlers
    Published <- MCPublished
    Odd <- MCOdd
    Pages <- MCPages
    CacheTTL = 3
    FailureTTL = 1
    MaxTime = 6
    MaxForced = 1
    MaxAccounts = 2
    MaxPasswords = 2
SYMMETRY MCSymmetry
INVARIANTS AllTypeOK AdminRemains SessionsFollowPassword OfferIsUpgrade OneRequest
PROPERTIES NothingInherited OnlyForward
