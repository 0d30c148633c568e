SPECIFICATION Spec
CONSTANTS
  Sim = {s1, s2}
  SimType <- MCSimType
  Duration <- MCDuration
  TimeoutMax = 2
  Req = {r1, r2}
  Lanes = 2
  BatchDuration = 2
  RequestTimeout = 1
INVARIANTS
  AnsweredIsClosed
  OneVerdict
PROPERTIES
  EveryRequestAnswered
