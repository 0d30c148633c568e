SPECIFICATION ListSpec
CONSTANTS
  Sim = {s1, s2}
  Own = {s1}
  Clicked = {s1}
  OtherType = {"CPU_STRESS"}
  Reload = {k1}
  MaxRestarts = 1
PROPERTIES
  RunningKeepsEntry
  GhostsLeave
  BulkReachesEveryEntry
