SPECIFICATION FairSpec
CONSTANTS
  d1 = d1
  d2 = d2
  r1 = r1
  r2 = r2
  Deliveries = {d1}
  Blocked = {}
  Disconnects = {}
  Requesters = {}
  NoReq = NoReq
  MaxRetries = 2
  BatchLimit = 1
  JitterRaces = FALSE
  MaxRequeues = 0
  MaxCrashes = 1
PROPERTY EveryDeliverySettles
CHECK_DEADLOCK FALSE
