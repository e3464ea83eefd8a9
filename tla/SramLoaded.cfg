CONSTANTS
  Width = 16
  WordBits = 16
  Pow2 <- MCPow2
  Value <- MCValue
  Blank = 191
  SizeT = 20
  MaxCalls = 2
  HostCalls = {"reset", "run_n", "verbose_run"}
  RunArgs <- AnyArg
  Pokes = {}
  Images <- Nothing
  RegisterGarbage <- Garbage
  PsrGarbage <- GarbagePsr
  PrefetchGarbage <- GarbagePrefetch
  HoldGarbage = {TRUE, FALSE}
  CommandLines <- SramCommandLines
  Texts <- Text
  Strtoul <- MCStrtoul
  Files <- MCFiles
SPECIFICATION MainSpec
INVARIANT SramLoaded
CHECK_DEADLOCK FALSE
