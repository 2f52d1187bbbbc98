CONSTANTS
    MaxTimestamp = 4
    MaxTerm = 3
    MaxBatch = 2
    MaxCrashes = 1
    MajorityModes = {TRUE, FALSE}
    Faults = {}
SPECIFICATION Spec
INVARIANTS TypeOK DataMatchesOplog DurableSurvives StableIsCommitted FailsOnlyAfterKeptCandidate
CHECK_DEADLOCK FALSE
