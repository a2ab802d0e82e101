SPECIFICATION MemorySpec
CONSTANTS
  Data = {d1, d2, d3}
  Eager = {d1, d2}
  Values = {"long", "short"}
  None = None
  Length <- MCLength
  MaxEntries = 3
  MaxMemory = 5
  Modulus = 16
  MaxRefs = 1
  MaxCounter = 5
  ScratchLen = 7
  Paths <- MCPaths
  Subs <- MCSubs
  BlobPaths <- MCBlobPaths
  Lists <- MCLists
  MaxBlobs = 2
  MaxLeaks = 1
  MaxInputs = 3
CHECK_DEADLOCK FALSE
SYMMETRY DataSymmetry
INVARIANTS
  ValuesCurrent
  RefsBalanced
  BuffersOwned
  MemoryAccounted
  NamesMember
  MemoryOwned
  BlobsValid
PROPERTY ImplementsLru
