\* Five nodes, t = 1: n = 3t + 2, as the shipped configurations with n = 20.
SPECIFICATION Spec
CONSTANTS
    Node = {n1, n2, n3, n4, n5}
    Served = {n1, n2, n3, n4, n5}
SYMMETRY Symmetry
INVARIANT
    NeverStarved
CHECK_DEADLOCK FALSE
