SPECIFICATION Spec
CONSTANTS
  p1 = p1
  p2 = p2
  k1 = k1
  k2 = k2
  t1 = t1
  t2 = t2
  t3 = t3
  Requests = {p1, p2}
  Leaving = {p1, p2}
  NoRequest = NoRequest
  Keys = {k1, k2}
  Targets = {t1, t2, t3}
  Enabled = {t1, t2}
  Inputs <- Faulty
  Plans <- OverlappingPlans
  JitterRaces = TRUE
  MaxCrashes = 1
SYMMETRY RequestSymmetry
INVARIANTS
  TypeOK
  OneDeliveryPerTarget
  DeliveredMeansAll
  AcceptedMeansRouted
  AnswerTellsTable
CHECK_DEADLOCK FALSE
