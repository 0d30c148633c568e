SPECIFICATION DisplaySpec
CONSTANTS
  ProbeTimeout = 2
  WarnAfter = 2
  MaxErrors = 2
  IpcBound = 2
INVARIANTS
  NoFalseAlarm
PROPERTIES
  WarningIsHonest
  RecoveryShown
