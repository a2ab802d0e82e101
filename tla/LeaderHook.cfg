\* Three hosts, a file of up to three cells copied by two at a time.
SPECIFICATION FairSpec
CONSTANTS
  N = 3
  MaxSize = 3
  ChunkMax = 2
  VarLen = 2
  None = None
INVARIANTS
  MatchedCalls
  CopiesWhole
PROPERTY
  HookEnds
CHECK_DEADLOCK FALSE
