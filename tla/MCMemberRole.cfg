\* One step-down command at a time, every kind of reconfiguration.
CONSTANTS
  Command = {c1}
  ReconfigKind = {"safe", "force", "heartbeat"}
  Overlap = FALSE
  MaxTerm = 3
SPECIFICATION FairSpec
CHECK_DEADLOCK FALSE
INVARIANTS TypeOK WritesOnlyAfterDrain OtherInvariantsHold
PROPERTIES TermFixedWhileLeader StepDownEnds ReconfigEnds AttemptEnds
