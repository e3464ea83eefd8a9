CONSTANTS
  Width = 16
  WordBits = 16
  Pow2 <- MCPow2
  Value <- MCValue
  Blank = 191
  SizeT = 8
  MaxCalls = 1
  HostCalls = {"run_n"}
  RunArgs = {4}
  Pokes = {}
  Images <- StackImages
  RegisterGarbage <- StackFiles
  PsrGarbage <- OnePsr
  PrefetchGarbage <- GarbagePrefetch
  HoldGarbage = {FALSE}
  Bottom <- MCBottom
SPECIFICATION StackSpec
PROPERTY StackImplemented
CHECK_DEADLOCK FALSE
