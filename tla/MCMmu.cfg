CONSTANTS
  WordBits = 16
  Pow2 <- MCPow2
  Value <- MCValue
  Width = 16
  Blank = 191
  Peripherals <- Ranges
  Reads <- MCReads
  Writes <- MCWrites
  Observed <- MCObserved
  MaxCalls = 3
SPECIFICATION Spec
INVARIANTS TypeOK RangesDisjoint
PROPERTIES MapImplemented StoreImplemented
CHECK_DEADLOCK FALSE
