SPECIFICATION Spec
CONSTANTS
  k1 = k1
  b1 = b1
  p1 = p1
  p2 = p2
  w1 = w1
  w2 = w2
  w3 = w3
  Nobody = Nobody
  Key = {k1}
  Body = {b1}
  Proc = {p1, p2}
  Worker = {w1, w2, w3}
  ProcOf <- TwoAndOne
  MaxEdits = 1
  MaxSends = 2
  MaxStops = 1
CHECK_DEADLOCK FALSE
INVARIANTS
  AnswersStand
  NoSleepOverWork
