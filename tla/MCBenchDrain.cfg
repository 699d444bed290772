\* A trace of two places ends before the warm-up of its two threads does.
CONSTANTS
  a = a
  b = b
  T = 2
  Keys = {a, b}
  access_list <- Two
  Options <- JustSyncWarm
  warmup_access = 20
  report_interval = 2
  Sizes = {1}
SPECIFICATION Spec
INVARIANTS DrainedClean
