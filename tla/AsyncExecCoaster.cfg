SPECIFICATION Spec
CONSTANTS
  Units = {u1, u2, u3, u4}
  Idle = Idle
  Pending = Pending
  Executor = "coaster"
  Slots = 3
  BufferCount = 4
  MaxBuffers = 2
  CompletedSize = 2
  MaxLaunches = 2
  Faults = TRUE
  EarlyShutdown = TRUE
SYMMETRY UnitSymmetry
INVARIANTS
  RequestsFitSlots
  NoStrandedUnit
  NeverBlocksHoldingWork
  UnitsConserved
