CONSTANTS
    MaxTimestamp = 4
    MaxTerm = 2
    MaxBatch = 2
    MaxCrashes = 1
    MajorityModes = {TRUE}
    Faults = {}
SPECIFICATION Spec
INVARIANT AppliedThroughIsStable
CHECK_DEADLOCK FALSE
