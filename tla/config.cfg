SPECIFICATION FairSpec
CONSTANTS
  a = a
  b = b
  q1 = q1
  q2 = q2
  q3 = q3
  Requests = {q1, q2, q3}
  Disconnects = {q1}
  Free = Free
  Names = {a, b}
  NoName = NoName
  MaxId = 2
  Ops <- MixedOps
INVARIANTS
  TypeOK
  LogIsHistory
  AnswersMatchLog
  RulesWhole
PROPERTIES
  RequestsReturn
  ConnectionReturns
CHECK_DEADLOCK FALSE
