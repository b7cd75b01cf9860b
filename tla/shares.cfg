SPECIFICATION Spec
CONSTANTS
    P = 97
    RootOfUnity = 28
    TwoAdicity = 5
    FFTThresh = 6
    Tau = 10
    Cases <- SmallCases
CHECK_DEADLOCK FALSE
INVARIANTS
    HeldSharesAreDealt
    SecretComesBack
    OnlyCorruptRowsFail
    DealersPassTheTest
