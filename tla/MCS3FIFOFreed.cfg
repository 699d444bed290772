\* The same buffer; a ghost that was hit is deleted from M_ while G_ points to it.
CONSTANTS
  Keys = {k1, k2, k3, k4}
  Nodes = {n1, n2, n3, n4, n5}
  buffer_size = 3
  Share = 3
SPECIFICATION Spec
CHECK_DEADLOCK FALSE
INVARIANTS FreedNeverRead
