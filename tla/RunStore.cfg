SPECIFICATION Spec
CONSTANTS
  s1 = s1
  f1 = f1
  f2 = f2
  j1 = j1
  ps = ps
  pf1 = pf1
  pf2 = pf2
  pc = pc
  pj = pj
  pk = pk
  r1 = r1
  r2 = r2
  r3 = r3
  None = None
  Scans = {s1}
  Fixtures = {f1, f2}
  Projects = {j1}
  CasePlans <- MCCasePlans
  SeedPlan <- MCSeedPlan
  BaseSize <- MCBaseSize
  Results = {r1, r2, r3}
  MaxRuns = 3
  MaxResultsPerRun = 2
  MaxTotalResults = 3
  MaxRunBytes = 6
  MaxStoreBytes = 12
  MaxMemory = 14
  TableRoom = 1
INVARIANTS Consistent ResultsAreBound
PROPERTY EvictsOldest
CHECK_DEADLOCK FALSE
