SPECIFICATION Spec
CONSTANTS
  EnvMinutes = 2
  MaxMinutes = 3
  MaxStartup = 1
  MaxAdjustments = 2
  Client = {c1}
  QueueBound = 5
INVARIANTS
  IdleWithinTwoPeriods
  PagesAgreeWithServer
  IndicatorHonest
PROPERTIES
  NeverIdleEarly
  LoadedPageStaysConnected
