SPECIFICATION RestartSpec
CONSTANTS
  NoContent = NoContent
  p1 = p1
  p2 = p2
  Pubs = {p1, p2}
  Subs = {s1}
  Ids = {0}
  Nonces = {1, 2}
  Window = 1
  MaxPublish = 2
  MaxInbox = 1
  MaxSeq = 0
  Cases <- TestCases
PROPERTY
  RestartHeals
CHECK_DEADLOCK FALSE
