SPECIFICATION Spec
CONSTANTS
  None = None
  top = top
  sub = sub
  Files = {1, 2, 3, 4}
  Dirs <- MCDirs
  Place <- MCPlace
  Generated = {4}
  Sizes = {1, 4}
  MaxFiles = 2
  MaxFileBytes = 2
  MaxTotalBytes = 3
  FineClock = TRUE
  MaxWrites = 1
INVARIANT ConclusionCoversAll
