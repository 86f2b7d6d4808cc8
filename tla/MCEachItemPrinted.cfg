SPECIFICATION DecodeSpec
CONSTANTS
  Loads <- NestedLoads
  AfterBytes = {0}
INVARIANTS
  EachItemPrinted
CHECK_DEADLOCK FALSE
