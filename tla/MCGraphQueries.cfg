SPECIFICATION QuerySpec
CONSTANTS
  NodeNames = {n1, n2}
  Topics = {t1, t2}
  Ids = {0, 1}
  Null = Null
INVARIANTS
  NothingLost
PROPERTIES
  CompleteCopy
