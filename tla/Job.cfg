SPECIFICATION FairSpec
CONSTANTS
  Size = 4
  Extra = {1}
  Executors = {1}
  Tasks = {"first", "second"}
  TypeOf <- MCTypeOf
  ParentOf <- MCParentOf
  Tries = 2
  MaxFailed = 1
  Asked <- MCAsked
  None = None
INVARIANTS
  LayoutAsAsked
  RulesAfterReload
  ServicesTold
  CleanEnd
PROPERTY JobEnds
