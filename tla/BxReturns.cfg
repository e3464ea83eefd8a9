CONSTANTS
  Width = 16
  WordBits = 16
  Pow2 <- MCPow2
  Value <- MCValue
  Blank = 191
  SizeT = 4
  MaxCalls = 1
  HostCalls = {"run_n"}
  RunArgs = {0, 1}
  Pokes <- FlowPokes
  Images <- Probes
  RegisterGarbage <- FlowFiles
  PsrGarbage <- OnePsr
  PrefetchGarbage <- GarbagePrefetch
  HoldGarbage = {FALSE}
SPECIFICATION Spec
PROPERTY BxReturns
CHECK_DEADLOCK FALSE
