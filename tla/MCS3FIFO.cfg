\* Three pages, one of them for S_; two ghosts at most.  The nodes that can be
\* live at once, and one more.
CONSTANTS
  Keys = {k1, k2, k3, k4}
  Nodes = {n1, n2, n3, n4, n5}
  buffer_size = 3
  Share = 3
SPECIFICATION Spec
SYMMETRY Symmetry
CHECK_DEADLOCK FALSE
INVARIANTS Capacity TableExact AssertHolds
PROPERTIES Implements
