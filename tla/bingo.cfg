\* Four nodes, t = 1: a corrupted dealer leaves out n4, and n1 is Byzantine.
SPECIFICATION StoppingSpec
CONSTANTS
    Node = {n1, n2, n3, n4}
    T = 1
    Dealt = {n1, n2, n3}
    Byz = {n1}
SYMMETRY Symmetry
INVARIANTS
    LeavingFixesTheSecret
    EmptyHandedSentRows
    EveryoneLeavesInTheEnd
