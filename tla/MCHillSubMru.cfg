\* The default policy of hill_replacer.h: mru_threshold 64 covers every level.
\* Two keys below the top, two remembered: five keys fill both. A half-life of
\* four passes IntMax from the seventh access on.
CONSTANTS
  Keys = {k1, k2, k3, k4, k5}
  Size = 3
  LruSize = 1
  MaxPointsBits = 2
  MaxPoints = 3
  GhostSize = 2
  HitPoints = 1
  MruThreshold = 64
  InitHalf = 2
  HalfCap = 1000
  IntMax = 10
  Halves = {4}
  MaxCurTs = 10
SPECIFICATION SubSpec
SYMMETRY Symmetry
CHECK_DEADLOCK FALSE
INVARIANTS TypeOK Partition Capacity MinLevelExact StampsOrdered EvictSafe
PROPERTIES SubImplements HitScanAlone
