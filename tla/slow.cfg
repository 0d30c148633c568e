SPECIFICATION SlowSpec
CONSTANTS
  Campaign = {c1, c2}
  Null = null
  MaxRequests = 3
INVARIANTS
  RunningHasSignal
  QuietWhenStopped
  CampaignIsAnnounced
PROPERTIES
  EveryCampaignReturns
