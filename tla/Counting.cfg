CONSTANTS
  Width = 16
  WordBits = 16
  Pow2 <- MCPow2
  Value <- MCValue
  Blank = 0
  SizeT = 40
  MaxCalls = 2
  HostCalls = {"reset", "run_n", "verbose_run", "run"}
  RunArgs = {0, 1, 3, 39}
  Pokes = {}
  Images <- TestImages
  RegisterGarbage <- TestFiles
  PsrGarbage <- SomePsrs
  PrefetchGarbage <- TestPrefetches
  HoldGarbage = {TRUE, FALSE}
SPECIFICATION FairSpec
INVARIANTS RunCount ExecutesMemory
PROPERTIES TestsPass RunReturns RunProgress
CHECK_DEADLOCK FALSE
