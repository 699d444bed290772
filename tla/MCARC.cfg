\* Three pages, seven keys: one more than all four lists can hold.
CONSTANTS
  Keys = {k1, k2, k3, k4, k5, k6, k7}
  buffer_size = 3
  Unit = 6
SPECIFICATION Spec
INVARIANTS Consistent Disjoint Directory PopSafe
PROPERTIES Implements
