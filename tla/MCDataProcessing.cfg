CONSTANTS
  Width = 3
  WordBits = 3
  Pow2 <- MCPow2
  Value <- MCValue
  Offsets <- MCOffsets
SPECIFICATION Spec
INVARIANT TypeOK
PROPERTIES AdditionExact SubtractionExact CompareThenBranch ShiftsIterate
