SPECIFICATION FairSpec
CONSTANTS
  p1 = p1
  p2 = p2
  p3 = p3
  r1 = r1
  r2 = r2
  r3 = r3
  Nobody = Nobody
  Segments = {1, 2, 3}
  Requests = {r1, r2, r3}
  Processes = {p1, p2, p3}
  ScopeOf <- TwinsAndOverlap
  ServedBy <- Apart
  MaxSends = 2
  Faults = {"raise", "commit", "crash"}
CHECK_DEADLOCK FALSE
INVARIANTS
  TypeOK
  RunIsWhole
  NothingWithoutRun
  SuccessIsStored
PROPERTIES
  EveryRequestIsAnswered
  ImplementsRegistry
