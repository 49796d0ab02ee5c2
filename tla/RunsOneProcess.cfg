SPECIFICATION FairSpec
CONSTANTS
  p1 = p1
  p2 = p2
  p3 = p3
  r1 = r1
  r2 = r2
  r3 = r3
  Nobody = Nobody
  Segments = {1}
  Requests = {r1, r2}
  Processes = {p1}
  ScopeOf <- Twins
  ServedBy <- OneProcess
  MaxSends = 1
  Faults = {}
CHECK_DEADLOCK FALSE
PROPERTIES
  SameScopeSucceeds
