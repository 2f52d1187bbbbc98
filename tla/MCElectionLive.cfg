\* Two voters, both kinds of election: what must eventually happen.
CONSTANTS
  Node = {n1, n2}
  StartElectionReason = {"kElectionTimeout", "kStepUpRequestSkipDryRun"}
  MaxTerm = 2
  MaxElections = 3
  MaxRestarts = 1
SPECIFICATION FairSpec
CHECK_DEADLOCK FALSE
PROPERTIES CandidacyEnds PendingTermAdopted
