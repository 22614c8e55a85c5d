SPECIFICATION Spec
CONSTANTS
  d1 = d1
  d2 = d2
  r1 = r1
  r2 = r2
  Deliveries = {d1}
  Blocked = {}
  Disconnects = {}
  Requesters = {r1, r2}
  NoReq = NoReq
  MaxRetries = 2
  BatchLimit = 1
  JitterRaces = FALSE
  MaxRequeues = 2
  MaxCrashes = 0
PROPERTY DeliveredIsFinal
CHECK_DEADLOCK FALSE
