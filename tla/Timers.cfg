SPECIFICATION AllSpec
CONSTANTS
  r1 = r1
  d1 = d1
  d2 = d2
  k1 = k1
  NONE = NONE
  Callers = {c1, c2, c3}
  Capacity = 1
  Parts = 2
  MaxWait = 2
  Low = 2
  Backoff = 3
  Headers <- MCHeaders
CHECK_DEADLOCK FALSE
INVARIANTS TurnsInOrder
PROPERTIES ImplementsBucket EveryCallerLeaves ClientSettles
