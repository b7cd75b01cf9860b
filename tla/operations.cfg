SPECIFICATION StoppingSpec
CONSTANTS
    Node = {n1, n2, n3, n4, n5}
    T = 1
    Served = {n1, n2, n3, n4}
    Byz = {n1}
    Sizes = {3, 4, 7}
    Parts = {1, 2}
    Peer = {p1, p2}
    Me = p1
    MaxSent = 2
SYMMETRY Symmetry
INVARIANTS
    HavenIsFixed
    AvssSharesInPlace
    HbIsFixed
    DistributedToMost
    ReconstructsOnce
    DecodesEnough
    CountedMeansArrived
    OperationEnds
