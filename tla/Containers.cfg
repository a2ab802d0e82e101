SPECIFICATION FairSpec
CONSTANTS
  Nested = {n1, n2, n3}
  ByRef = {n1}
  Plain = {p}
  Readers = {r}
  Checkers = {c}
  Subs = {"s1", "s2"}
  SubOf <- MCSubOf
  Stock = 2
  None = None
INVARIANTS
  NoFailure
  OneInner
  RefsBalanced
  ReadersSeeAll
  NothingLeaks
PROPERTY StatementsEnd
