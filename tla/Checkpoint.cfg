SPECIFICATION FairSpec
CONSTANTS
  Calls = {a, b}
  N = 2
  MaxRuns = 3
  XPT_FLUSH = "periodic_flush"
  Persist = "persist"
  None = None
INVARIANTS
  SavedNotRepeated
  FinishedIsSaved
PROPERTY RunsFinish
