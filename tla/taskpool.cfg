SPECIFICATION FairSpec
CONSTANTS
    Task = {k1, k2}
    Cleaner = {c1, c2}
    Awaited <- NoCountOr2
    MaxRuns = 2
    MaxMail = 1
CHECK_DEADLOCK FALSE
INVARIANTS
    PoolMirrorsStates
    NoLostWakeup
    NotifierIsHeard
    OnlyATimeoutLosesAnOutput
    RefusedForAReason
PROPERTY EveryTimedCleanEnds
