SPECIFICATION Spec
CONSTANTS
  p1 = p1
  p2 = p2
  k1 = k1
  k2 = k2
  t1 = t1
  t2 = t2
  t3 = t3
  Requests = {p1}
  Leaving = {p1}
  NoRequest = NoRequest
  Keys = {k1}
  Targets = {t1, t2, t3}
  Enabled = {t1, t2}
  Inputs <- OnlyGood
  Plans <- OnePlan
  JitterRaces = FALSE
  MaxCrashes = 0
INVARIANT AcceptedServesAll
CHECK_DEADLOCK FALSE
