SPECIFICATION Spec
CONSTANTS
  u1 = u1
  u2 = u2
  t1 = t1
  t2 = t2
  Users = {u1, u2}
  Loads = {t1, t2}
  MaxRevision = 2
SYMMETRY Alike
INVARIANTS
  TypeOK
  CheckpointCovers
  EqualCountsSuffice
