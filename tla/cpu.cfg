SPECIFICATION Spec
CONSTANTS
  Sim = {s1, s2}
  SimType <- MCSimType
  Duration <- MCDuration
  TimeoutMax = 2
  Worker = {w1, w2}
  Cpus = 2
  KillDelay = 1
INVARIANTS
  TimerIffActive
  NoWorkerLost
  ActiveWorkersAreSafe
  LogMatchesRegistry
PROPERTIES
  WorkersReclaimed
  ImplementsLifecycle
