SPECIFICATION MCSpec
CONSTANTS
    n1 = n1
    n2 = n2
    m1 = m1
    k1 = k1
    c1 = c1
    c2 = c2
    None = None
    Nobody = Nobody
    Sessions = {s1, s2}
    MaxUpdates = 3
    Threshold = 3
    MaxExits = 2
    Users = {1, 2, 3}
    Nodes = {n1}
    Node <- MCNode
    Timeout = 2
INVARIANTS NothingLost MembersConverge UsageListed
PROPERTIES OrphansReaped ClosedSocketLeaves
CHECK_DEADLOCK FALSE
