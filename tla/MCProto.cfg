\* All traces of seven blocks among five, up to the names of the blocks, and
\* raw traces of three requests; buffers of one to four pages.
CONSTANTS
  Keys <- Blocks5
  Length = 7
  Policies <- AllPolicies
  Params <- Sizes
  RawTraces <- AllTraces
  m = 2
  limit_ratio_ = 4
  stack_limit_ <- TwiceBuffer
SPECIFICATION Spec
CHECK_DEADLOCK FALSE
INVARIANTS Sound HistoryKept Optimal TraceKept
PROPERTIES Implements
