\* DLIRS with a buffer of a quarter of the footprint: one page
CONSTANTS
  Keys <- Blocks5
  Length = 5
  Policies <- JustDLIRS
  Params <- Quarter
  RawTraces <- Long
  m = 2
  limit_ratio_ = 4
  stack_limit_ <- TwiceBuffer
SPECIFICATION Spec
CHECK_DEADLOCK FALSE
INVARIANTS WithinSize
