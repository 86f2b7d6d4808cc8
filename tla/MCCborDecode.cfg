SPECIFICATION DecodeSpec
CONSTANTS
  Loads <- MCLoads
  AfterBytes = {0, 251}
INVARIANTS
  NoOverrun
  RoundTrip
  StrictReaders
  NearestHalf
  HalfStable
  NestingPrinted
  StaysAligned
CHECK_DEADLOCK FALSE
