CONSTANTS
    n1 = n1
    n2 = n2
    n3 = n3
    n4 = n4
    n5 = n5
    Nodes = {n1, n2, n3, n4, n5}
    InitialLogs <- MCLateLogs
    MaxTerm = 4
    MaxLog = 3
    MaxEvents = 2
    Faults = {}
SPECIFICATION MCLateSpec
INVARIANTS CommonPointNotBeforeCommitPoint
SYMMETRY MCLateSymmetry
CHECK_DEADLOCK FALSE
