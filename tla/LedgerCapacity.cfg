CONSTANTS
  Procs = {p1, p2}
  AttemptIds = {a1, a2}
  AttemptContents = {c1}
  TerminalContents = {t1}
  Stamps = {1}
  Objects = {q1, e1}
  Evidence <- MCEvidence
  Authorities = {g1}
  None = None
  MaxScopeAttempts = 2
  InventoryCapacity = 3
  MaxFaults = 0
  MaxLosses = 0
  c1 = c1
  c2 = c2
  t1 = t1
  t2 = t2
  q1 = q1
  q2 = q2
  e1 = e1
  e2 = e2
SPECIFICATION Spec
INVARIANTS PendingRollsForward
