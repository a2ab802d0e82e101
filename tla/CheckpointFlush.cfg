SPECIFICATION FairSpec
CONSTANTS
  Calls = {a, b}
  N = 2
  MaxRuns = 3
  XPT_FLUSH = "always_flush"
  Persist = "persist"
  None = None
INVARIANT AlwaysFlushed
