\* Three voters, both kinds of election, one restart.
CONSTANTS
  Node = {n1, n2, n3}
  StartElectionReason = {"kElectionTimeout", "kStepUpRequestSkipDryRun"}
  MaxTerm = 2
  MaxElections = 2
  MaxRestarts = 1
SPECIFICATION Spec
SYMMETRY NodeSymmetry
CHECK_DEADLOCK FALSE
INVARIANTS TypeOK OneVotePerTermUnlessRegressed OneElectedPerTerm GrantedVotesDurable
