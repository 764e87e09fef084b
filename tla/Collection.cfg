SPECIFICATION Spec
CONSTANTS
  None = None
  MaxPages = 3
  MaxRecords = 3
  MaxTotalBytes = 6
  MaxResponseBytes = 4
  Sizes = {1, 2}
  Stores = {None, 0, 1, 2, 3, 4}
  Records = {1, 2, 3}
  Bodies = {2, 4}
INVARIANTS Sound HonestIsServed
PROPERTY Ends
