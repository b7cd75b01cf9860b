SPECIFICATION Spec
CONSTANTS
    P = 97
    RootOfUnity = 28
    TwoAdicity = 5
    FFTThresh = 6
    Tau = 10
    Cases <- OneTest
CHECK_DEADLOCK FALSE
INVARIANT AcceptedMeansLowDegree
