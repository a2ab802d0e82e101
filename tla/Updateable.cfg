SPECIFICATION FairSpec
CONSTANTS
  Updates = {"a", "b", "c", "d"}
  Op <- MCOp
  Arg <- MCArg
  Start = 1
  Empty = Empty
  MaxTries = 1
PROPERTIES
  ImplementsUpdateCell
  ClosesAtLast
