SPECIFICATION Spec
CONSTANTS
  u1 = u1
  u2 = u2
  u3 = u3
  a = a
  b = b
  first = first
  both = both
  second = second
  t1 = t1
  t2 = t2
  t3 = t3
  None = None
  Users = {u1, u2, u3}
  Segments = {a, b}
  Confirmations = {first, both, second}
  Batch <- TwoBatches
  Chosen <- Selections
  Source <- Overlapping
  Rank <- Preferring
  Sessions = {t1, t2, t3}
  MaxRevision = 5
  Stoppable <- Stopped
SYMMETRY Alike
INVARIANTS
  TypeOK
  PlanKeepsUsers
  ReleaseSparesRuns
  SourceConfirmedOnce
PROPERTIES
  ImplementsLedger
