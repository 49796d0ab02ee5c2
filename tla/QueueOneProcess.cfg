SPECIFICATION Safety
CONSTANTS
  j1 = j1
  j2 = j2
  p1 = p1
  p2 = p2
  w1 = w1
  w2 = w2
  c1 = c1
  c2 = c2
  none = none
  noproc = noproc
  Job = {j1, j2}
  Proc = {p1}
  Worker = {w1, w2}
  Candidate = {c1}
  ProcOf <- OneProcess
  Leaders = {w1}
  NoJob = none
  NoProc = noproc
  MaxRetries = 1
  LeaseTicks = 1
  MaxStops = 0
INVARIANTS
  TypeOK
  ActiveLeaseHasWorker
  PersistingOwnsRun
PROPERTIES
  LeaseOutlivesLateWorkers
  ImplementsLifecycleSteps
