\* Elections outside start() and _runRollback, an applier that sees the end of
\* the pipeline.
CONSTANTS
  Race = {}
  MaxTs = 4
  MaxTerm = 3
  BufferSize = 2
  BatchLimit = 2
SPECIFICATION Spec
INVARIANTS TypeOK LogMatching InvariantsHold ProducerInStep
