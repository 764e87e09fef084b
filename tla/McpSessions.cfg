SPECIFICATION Spec
CONSTANTS
  r1 = r1
  r2 = r2
  r3 = r3
  k1 = k1
  default = default
  s1 = s1
  s2 = s2
  boot = boot
  server = server
  None = None
  Requests = {r1, r2, r3}
  Closers = {k1}
  Sessions = {default, s1, s2}
  Default = default
  MaxSessions = 2
  Boot = boot
  Server = server
SYMMETRY Symmetry
INVARIANTS Isolation OneValidation RetainedIsLate
CHECK_DEADLOCK FALSE
