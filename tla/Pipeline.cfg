CONSTANTS
  Width = 16
  WordBits = 16
  Pow2 <- MCPow2
  Value <- MCValue
  Blank = 191
  SizeT = 4
  MaxCalls = 3
  HostCalls = {"reset", "run_n", "poke"}
  RunArgs = {3}
  Pokes <- FlowPokes
  Images <- Pairs
  RegisterGarbage <- FlowFiles
  PsrGarbage <- OnePsr
  PrefetchGarbage <- GarbagePrefetch
  HoldGarbage = {FALSE, TRUE}
SPECIFICATION Spec
INVARIANTS TypeOK PipelineSync ExecutesMemory
PROPERTIES PrefetchKept PcStaysEven RunsInProgramOrder
CHECK_DEADLOCK FALSE
