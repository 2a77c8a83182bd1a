SPECIFICATION SpecOfAll
CONSTANTS
    q1 = q1
    q2 = q2
    t = t
    i = i
    w = w
    h1 = h1
    h2 = h2
    none = none
    cut = cut
    Paths <- MCPaths
    Titles <- MCNobody
    Items <- MCTwoItems
    Links <- MCNobody
    Handlers <- MCOneHandler
    MaxFaults = 1
PROPERTIES
    RollbackSparesRows
