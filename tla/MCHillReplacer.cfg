\* mru_threshold 0: the victim is the last of its level.
\* Three pages, one in the top; intervals of three accesses; a half-life
\* moves with the ratio of the hits, up to six times, or by half in a nudge.
CONSTANTS
  Keys = {k1, k2, k3, k4}
  Size = 3
  LruSize = 1
  MaxPointsBits = 2
  MaxPoints = 3
  GhostSize = 1
  HitPoints = 1
  MruThreshold <- NoMru
  InitHalf = 4
  HalfCap = 1000
  IntMax = 2147483647
  UpdateInterval = 3
  Window = 5
  StableRounds = 2
  Lambda = 5
  BoundNum = 1
  BoundDen = 1
  SimNum = 1
  SimDen = 2
  MaxTs = 15
SPECIFICATION Spec
SYMMETRY Symmetry
CHECK_DEADLOCK FALSE
INVARIANTS BothSound Lockstep SameSample Accounted
PROPERTIES ClimbsToBetter Implements
