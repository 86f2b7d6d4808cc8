SPECIFICATION LifeSpec
CONSTANTS
  Nodes = {n1}
  Pubs = {p1}
  Subs = {s1, s2}
  Guards = {g1}
  WaitSets = {w1}
  Clients = {c1}
  Ids = {0}
  MaxGraphGuards = 1
  MaxBuffers = 1
SYMMETRY Interchangeable
INVARIANTS
  HeartbeatsOfTheLiving
  LeftBehind
  MemoryAccounted
PROPERTIES
  NoDiscoveryAfterDestroy
CHECK_DEADLOCK FALSE
