\* Two threads, any of which may get no client, a trace of four places of one
\* key, a report at each request of thread 1: a shared index with and without a
\* warm-up, and a stop after two requests; an index each.
CONSTANTS
  a = a
  b = b
  T = 2
  Keys = {a}
  access_list <- Four
  Options <- Several
  warmup_access = 2
  report_interval = 2
  Sizes = {1}
SPECIFICATION Spec
INVARIANTS RequestedOnce WholeTrace OvershootBounded WarmCounted ReportNotOver StopHonest CacheBacked
PROPERTIES Terminates
