\* A buffer of two pages: one in the top, one under it.
CONSTANTS
  Keys = {k1, k2, k3}
  Size = 2
  LruSize = 1
  MaxPointsBits = 2
  MaxPoints = 3
  GhostSize = 1
  HitPoints = 1
  MruThreshold = 64
  InitHalf = 2
  HalfCap = 1000
  IntMax = 2147483647
  Halves = {3}
  MaxCurTs = 7
SPECIFICATION SubSpec
CHECK_DEADLOCK FALSE
INVARIANTS ScanInBounds
