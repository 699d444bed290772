\* Two threads share the index of a trace of two places.
CONSTANTS
  a = a
  b = b
  T = 2
  Keys = {a, b}
  access_list <- Two
  Options <- JustSync
  warmup_access = 0
  report_interval = 2
  Sizes = {1}
SPECIFICATION Spec
INVARIANTS InTrace
