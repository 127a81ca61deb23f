SPECIFICATION Spec
CONSTANTS
  t1 = t1
  t2 = t2
  root = root
  p = p
  q = q
  obs = obs
  Workers <- MCWorkers
  Observer = obs
  Observed <- MCObserved
  Reported <- MCReported
  Pids <- MCPids
  Reports <- MCReports
  Creations <- MCCreations
  Root = root
  MaxGen <- MCMaxGen
  Ttl = 1
  MaxEntries = 2
  MaxDelay = 1
  TickRange = 100
SYMMETRY Symmetry
INVARIANT TypeOK
INVARIANT DecidedOnOwnData
PROPERTY EvictedForCause
CHECK_DEADLOCK FALSE
