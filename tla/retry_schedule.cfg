SPECIFICATION Spec
CONSTANTS
  r1 = r1
  r2 = r2
  r3 = r3
  Rows = {r1, r2}
  Inherited = {r1}
  Limit = 1
  Second = 4
  Milli = 2
  Digits <- Quarters
  IntMax = 63
  Jitters <- Sample
  Environments <- Several
  Unset = Unset
  Horizon = 19
  MaxRequeues = 1
INVARIANTS
  TypeOK
  EarlyByLessThanASecond
  PausesGrow
  FittingBaseNeverPanics
  Punctual
PROPERTY
  OldestSecondsFirst
CHECK_DEADLOCK FALSE
