SPECIFICATION FairSpec
CONSTANTS
  p1 = p1
  k1 = k1
  t1 = t1
  t2 = t2
  r1 = r1
  r2 = r2
  Requests = {p1}
  Leaving = {p1}
  NoRequest = NoRequest
  Keys = {k1}
  Targets = {t1, t2}
  Enabled = {t1, t2}
  Forbidden = {t2}
  Inputs <- Correct
  Plans <- TwiceOrRefused
  Requesters = {r1, r2}
  NoReq = NoReq
  MaxRetries = 2
  BatchLimit = 1
  MaxRequeues = 2
  JitterRaces = TRUE
  MaxCrashes = 1
INVARIANTS
  DeliveredIsAcked
  CountersBacked
PROPERTIES
  IngestKept
  EveryTargetSettles
CHECK_DEADLOCK FALSE
