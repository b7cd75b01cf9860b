SPECIFICATION StoppingSpec
CONSTANTS
    Node = {n1, n2, n3, n4, n5, n6, n7}
    T = 2
    Served = {n1, n2, n3, n4, n5}
    Byz = {n6}
SYMMETRY Symmetry
INVARIANTS
    LeavingMeansShared
    EveryoneLeavesInTheEnd
    LeavesWithAShare
    OnlyLateManagersCrash
