SPECIFICATION SafetySpec
CONSTANTS
  NUM_THREADS = 3
  MAX_PROCESSES = 4
  Statuses = {0}
  TickPoints <- SafeTicks
  EarlyExecute = FALSE
  BaseShellFaults = TRUE
INVARIANTS
  IndInv
  RunsOwnImage
  GlobalsDescribeProgram
  SavedStackOwned
  OneChainPerTerminal
  ShellFindsSlot
  KernelImageIntact
  ExitStatusReturned
PROPERTIES
  ImplementsProcTree
CHECK_DEADLOCK FALSE
