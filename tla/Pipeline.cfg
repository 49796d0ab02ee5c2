SPECIFICATION Spec
CONSTANTS
  c1 = c1
  c2 = c2
  Candidate = {c1, c2}
  MediaTypes = 2
  MaxAttempts = 2
  MaxParallel = 1
SYMMETRY SymmetricCandidates
CHECK_DEADLOCK FALSE
INVARIANTS
  TypeOK
  StoredInOrder
  RowsMatchStorage
  PageFollowsRow
  NoHashConflict
  BuiltIsReady
PROPERTIES
  ProgressIsKept
