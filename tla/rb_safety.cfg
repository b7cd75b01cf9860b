\* Four nodes, one of which may fail to be heard in time: t = 1 and n = 3t + 1.
SPECIFICATION Spec
CONSTANTS
    Node = {n1, n2, n3, n4}
    Served = {n1, n2, n3, n4}
SYMMETRY Symmetry
INVARIANTS
    OneOutput
    NoShareTwice
    NeverStarved
    QuietMeansFinished
PROPERTY
    KeepsPromise
\* Every message is handled once: the broadcast ends.
CHECK_DEADLOCK FALSE
