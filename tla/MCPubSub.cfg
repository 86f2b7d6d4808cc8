SPECIFICATION LiveSpec
CONSTANTS
  NoContent = NoContent
  Pubs = {p1}
  Subs = {s1}
  Ids = {0}
  Nonces = {1, 2}
  Window = 1
  MaxPublish = 3
  MaxInbox = 1
  MaxSeq = 0
INVARIANTS
  InboxGenuine
  NeverAhead
PROPERTIES
  ImplementsStream
  CatchesUp
