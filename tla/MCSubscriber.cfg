SPECIFICATION SubscriberSpec
CONSTANTS
  NoContent = NoContent
  Pubs = {p1}
  Subs = {s1, s2}
  Ids = {0}
  Nonces = {1, 2}
  MaxInbox = 1
  MaxSeq = 1
SYMMETRY Symmetry
INVARIANTS
  SingleChain
  ChainAlive
  RefusedForever
