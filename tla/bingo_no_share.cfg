\* Four nodes, t = 1, an honest dealer and no Byzantine node.
SPECIFICATION Spec
CONSTANTS
    Node = {n1, n2, n3, n4}
    T = 1
    Dealt = {n1, n2, n3, n4}
    Byz = {}
SYMMETRY Symmetry
INVARIANT
    NoOneLeavesEmptyHanded
CHECK_DEADLOCK FALSE
