SPECIFICATION Spec
CONSTANTS
  Data = {d1, d2, d3}
  Eager = {d1, d2}
  Values = {"long", "short"}
  None = None
  Length <- MCLength
  MaxEntries = 3
  MaxMemory = 5
  Modulus = 16
  MaxRefs = 1
  MaxCounter = 5
CHECK_DEADLOCK FALSE
SYMMETRY DataSymmetry
INVARIANT WithinBudget
