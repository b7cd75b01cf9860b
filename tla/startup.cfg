SPECIFICATION StoppingSpec
CONSTANTS
    Managers = 2
    Plans <- TwoOrTwice
    MaxSize = 2
    Pids <- SmallOrMixed
INVARIANTS
    KeysAreInPlace
    OperationsFindKeys
    ComesUpUnlessLate
PROPERTIES
    SmallIdsAreKilled
