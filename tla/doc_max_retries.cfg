SPECIFICATION Spec
CONSTANTS
  d1 = d1
  d2 = d2
  r1 = r1
  r2 = r2
  Deliveries = {d1}
  Blocked = {}
  Disconnects = {}
  Requesters = {}
  NoReq = NoReq
  MaxRetries = 3
  BatchLimit = 1
  JitterRaces = FALSE
  MaxRequeues = 0
  MaxCrashes = 0
INVARIANT DeadMeansExhausted
CHECK_DEADLOCK FALSE
