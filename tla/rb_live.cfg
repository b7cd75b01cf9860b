\* Three nodes, t = 1: every one of the 2t + 1 Readies is needed.
SPECIFICATION FairSpec
CONSTANTS
    Node = {n1, n2, n3}
    Served = {n1, n2, n3}
PROPERTY
    KeepsPromiseInTheEnd
CHECK_DEADLOCK FALSE
