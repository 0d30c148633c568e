SPECIFICATION Spec
CONSTANTS
  Sim = {s1, s2}
  SimType <- MCSimType
  Duration <- MCDuration
  TimeoutMax = 2
  Size <- MCSize
  ObjectsPerMb = 2
  BatchSize = 3
  Forever = 3
INVARIANTS
  BatchChain
PROPERTIES
  ReleaseIsFinal
