SPECIFICATION Spec
CONSTANTS
    p1 = p1
    p2 = p2
    p3 = p3
    s1 = s1
    u1 = u1
    k1 = k1
    n1 = n1
    n2 = n2
    c1 = c1
    c2 = c2
    Ids = {p1, p2, p3, s1, u1}
    TableOf <- ThreeTables
    Keys = {k1}
    Names = {n1, n2}
    Starts <- ThreeStarts
    Batches <- SomeBatches
    Ranks = {1}
    Clients = {c1, c2}
    Null = Null
    LeftOut = LeftOut
    MaxCommits = 3
SYMMETRY ClientSymmetry
INVARIANTS
    TypeOK
    
    ReferencesHold
PROPERTIES
    AnswersAreTrue
CHECK_DEADLOCK FALSE
