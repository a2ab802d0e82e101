SPECIFICATION FairSpec
CONSTANTS
  Outer = {o}
  Inner = {i1, i2}
  Refs = {r1, r2}
  Scalars = {v}
  Structs = {s}
  StructArrays = {}
  StructFields = {f}
  Nodes <- MCNodes
  Level <- MCLevel
  Base <- MCBase
  Field <- MCField
  Inputs = {o, v, s, f}
  None = None
INVARIANTS
  RunsWhenDeepClosed
  OneSetter
  SignalsFreed
PROPERTY DeepWaitFires
