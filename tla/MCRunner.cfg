\* A figure of three rows, two with the same policy, over two sizes.
CONSTANTS
  Threads = {"w1", "w2"}
  trace_list <- OneTrace
  policies <- Hill
  buffer_size_list <- TwoSizes
  Patterns <- AllOrHill
  Finds <- Names
  MaxRuns = 2
  MaxCleans = 1
  MaxBuilds = 2
SPECIFICATION Spec
CHECK_DEADLOCK FALSE
INVARIANTS RowsRight CleanLasts
PROPERTIES ResultsKept RunEnds
