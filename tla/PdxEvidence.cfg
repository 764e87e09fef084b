SPECIFICATION Spec
CONSTANTS
  a1 = a1
  a2 = a2
  bad = bad
  c1 = c1
  c2 = c2
  h1 = h1
  h2 = h2
  v1 = v1
  good = good
  other = other
  p1 = p1
  p2 = p2
  None = None
  Processes = {p1, p2}
  Raws = {a1, a2, bad}
  Valid = {a1, a2}
  Captures <- MCCaptures
  Versions = {v1}
  Version <- MCVersion
  Contents = {good, other}
  Matches <- MCMatches
  PowerLoss = TRUE
SYMMETRY Symmetry
INVARIANTS ClaimsUnique ReplayIsOriginal
PROPERTY ImplementsEvidence
CHECK_DEADLOCK FALSE
