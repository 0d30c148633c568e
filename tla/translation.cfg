SPECIFICATION Spec
CONSTANTS
  NumDocs = 2
  Versions = {1, 2}
  Sizes <- MCSizes
  MaxBatchSize = 2
  MaxBatchChars = 3
  MaxRetries = 1
INVARIANTS
  TrustedStringsAreComplete
  ReadyMeansUpToDate
  BatchesFit
PROPERTIES
  EveryStartListens
