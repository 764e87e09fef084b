CONSTANTS
  Procs = {p1, p2}
  AttemptIds = {a1, a2}
  AttemptContents = {c1, c2}
  TerminalContents = {t1, t2}
  Stamps = {1, 2}
  Objects = {q1, q2, e1, e2}
  Evidence <- MCEvidence
  Authorities = {g1}
  None = None
  MaxScopeAttempts = 1
  InventoryCapacity = 2
  MaxFaults = 2
  MaxLosses = 0
  c1 = c1
  c2 = c2
  t1 = t1
  t2 = t2
  q1 = q1
  q2 = q2
  e1 = e1
  e2 = e2
SPECIFICATION Spec
SYMMETRY Symmetry
INVARIANTS AckedDurable JournalConsistent PendingRollsForward NeverRefused
PROPERTIES PinnedLoadReadsOnly ImplementsLedger
