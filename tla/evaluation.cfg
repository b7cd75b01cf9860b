SPECIFICATION StoppingSpec
CONSTANTS
    Experiments <- SmallExperiments
    MaxFlight = 3
    MaxCount = 2
INVARIANTS
    ShareSetsInPlace
    LatenciesAreOwn
    TestedAsPlanned
    ExperimentEnds
PROPERTY NothingTwice
