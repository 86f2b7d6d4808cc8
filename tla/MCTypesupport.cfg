SPECIFICATION TsSpec
CONSTANTS
  Messages <- MCMessages
  Languages = {"C", "C++"}
  BufferSize = 14
  AfterBytes = {0, 32, 67, 251}
  HeldSizes = {0, 5}
  Untouched = Untouched
INVARIANTS
  PrefixTaken
  PrefixFaithful
  StaysOnItems
  SkippedUntouched
  RelayWithinAllocation
CHECK_DEADLOCK FALSE
