SPECIFICATION FairSpec
CONSTANTS
    p1 = p1
    p2 = p2
    dash2 = dash2
    dash = dash
    link = link
    link2 = link2
    Nobody = Nobody
    NoKey = NoKey
    Calls <- MCTwoCalls
    Keys <- MCOneLink
    Admins <- MCTwoAdmins
    Slots = 1
INVARIANTS OneResolve FailureIsServedBack SlotsAreReturned
PROPERTIES RemovedStaysRemoved RequestsAreAnswered
