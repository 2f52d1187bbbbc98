\* The same under fairness.
CONSTANTS
  Race = {}
  MaxTs = 3
  MaxTerm = 3
  BufferSize = 1
  BatchLimit = 1
SPECIFICATION FairSpec
PROPERTIES DrainEnds SecondaryCatchesUp
