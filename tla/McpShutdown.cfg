SPECIFICATION Spec
CONSTANTS
  v1 = v1
  v2 = v2
  p1 = p1
  k1 = k1
  k2 = k2
  k3 = k3
  None = None
  Requests = {v1, p1}
  Keys = {k1, k2, k3}
  KeyOf <- MCKeyOfPair
  Validations = {v1}
  Publications = {p1}
  MaxInFlight = 2
INVARIANT ShutdownCancelsAll
CHECK_DEADLOCK FALSE
