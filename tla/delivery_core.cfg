SPECIFICATION Spec
CONSTANTS
  d1 = d1
  d2 = d2
  r1 = r1
  r2 = r2
  Deliveries = {d1, d2}
  Blocked = {d2}
  Disconnects = {d1, d2}
  Requesters = {r1}
  NoReq = NoReq
  MaxRetries = 3
  BatchLimit = 2
  JitterRaces = TRUE
  MaxRequeues = 2
  MaxCrashes = 1
INVARIANTS
  TypeOK
  RowConsistent
  NoConcurrentSend
  DeliveredHasEvidence
  BoundedEffort
  AcknowledgementCounts
  RefusedPostedByHand
  TrailCoversAttempts
PROPERTIES
  DeliveredIsFinal
  ContractKept
CHECK_DEADLOCK FALSE
