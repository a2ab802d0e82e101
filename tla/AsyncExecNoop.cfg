SPECIFICATION FairSpec
CONSTANTS
  Units = {u1, u2, u3}
  Idle = Idle
  Pending = Pending
  Executor = "noop"
  Slots = 2
  BufferCount = 16
  MaxBuffers = 256
  CompletedSize = 16
  MaxLaunches = 2
  Faults = FALSE
  EarlyShutdown = FALSE
PROPERTIES
  ImplementsWorkPool
  UnitsComplete
  LoopEnds
