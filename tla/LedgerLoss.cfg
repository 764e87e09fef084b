CONSTANTS
  Procs = {p1}
  AttemptIds = {a1}
  AttemptContents = {c1}
  TerminalContents = {t1}
  Stamps = {1, 2}
  Objects = {q1, e1}
  Evidence <- MCEvidence
  Authorities = {g1}
  None = None
  MaxScopeAttempts = 1
  InventoryCapacity = 2
  MaxFaults = 1
  MaxLosses = 2
  c1 = c1
  c2 = c2
  t1 = t1
  t2 = t2
  q1 = q1
  q2 = q2
  e1 = e1
  e2 = e2
SPECIFICATION FairSpec
PROPERTIES FailClosed LockReleased PendingResolved
