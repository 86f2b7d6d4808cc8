SPECIFICATION DecodeSpec
CONSTANTS
  Loads <- PairLoads
  AfterBytes = {0}
INVARIANTS
  FittingItemWritten
CHECK_DEADLOCK FALSE
