SPECIFICATION Spec
CONSTANTS
  MaxRequests = 3
  MAX_PROBE_SAMPLES = 1
  LATENCY_SAMPLE_RATE = 2
  Thresholds = {1}
INVARIANTS
  EveryRequestCounted
  PeriodIsCoherent
PROPERTIES
  ExternalLoadIsLogged
CHECK_DEADLOCK FALSE
