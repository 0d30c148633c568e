SPECIFICATION Spec
CONSTANTS
  EnvMinutes = 1
  MaxMinutes = 3
  MaxStartup = 0
  MaxAdjustments = 0
  Process = {p1, p2}
  NoProcess = none
  MaxProbes = 2
  QueueBound = 2
INVARIANTS
  SidecarAgrees
  OneProber
PROPERTIES
  IdleStopsProbes
  SidecarComesBack
  OrphansFallSilent
CHECK_DEADLOCK FALSE
