SPECIFICATION FairSpec
CONSTANTS
  v1 = v1
  v2 = v2
  p1 = p1
  k1 = k1
  k2 = k2
  k3 = k3
  None = None
  Requests = {v1, v2, p1}
  Keys = {k1, k2, k3}
  KeyOf <- MCKeyOf
  Validations = {v1, v2}
  Publications = {p1}
  MaxInFlight = 2
INVARIANTS OnlyOneWins StoredIsAnswered TableMatchesSlots CancelReachesWorker
  StoppedIsQuiet
PROPERTIES WorkersAsPromised AdmittedEnds ShutdownEnds
CHECK_DEADLOCK FALSE
