CONSTANTS
    n1 = n1
    n2 = n2
    n3 = n3
    n4 = n4
    n5 = n5
    Nodes = {n1, n2, n3}
    InitialLogs <- MCInitialLogs
    MaxTerm = 4
    MaxLog = 3
    MaxEvents = 2
    Faults = {"OffBranch", "OldTerm"}
SPECIFICATION Spec
INVARIANTS TypeOK CommitPointIsCommitted StableOnBranch
PROPERTIES CommittedGrows CommittedIsKept
SYMMETRY MCSymmetry
CHECK_DEADLOCK FALSE
