SPECIFICATION OneByOne
CONSTANTS
  a = a
  b = b
  q1 = q1
  q2 = q2
  q3 = q3
  Requests = {q1, q2}
  Disconnects = {}
  Free = Free
  Names = {a, b}
  NoName = NoName
  MaxId = 2
  Ops <- LoneOps
INVARIANT WritesTakeEffect
CHECK_DEADLOCK FALSE
