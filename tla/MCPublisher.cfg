SPECIFICATION PublisherSpec
CONSTANTS
  NoContent = NoContent
  Pubs = {p1}
  Ids = {0, 1}
  Nonces = {1}
  Window = 2
  MaxPublish = 4
INVARIANTS
  PublisherTypeOK
  AnswersInWindow
  Lockstep
  WindowIsSuffix
  RequestsAhead
  AnswersGenuine
  AnnouncedServed
  NamedAsServed
PROPERTIES
  EarlyRequestsAnswered
  ImplementsLog
