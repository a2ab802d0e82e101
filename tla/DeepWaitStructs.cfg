SPECIFICATION FairSpec
CONSTANTS
  Outer = {}
  Inner = {}
  Refs = {}
  Scalars = {}
  Structs = {s}
  StructArrays = {t}
  StructFields = {f}
  Nodes <- MCNodes
  Level <- MCLevel
  Base <- MCBase
  Field <- MCField
  Inputs = {t}
  None = None
PROPERTY DeepWaitFires
