SPECIFICATION SafetySpec
CONSTANTS
  NUM_THREADS = 2
  MAX_PROCESSES = 4
  Statuses = {0}
  TickPoints <- PageTicks
  EarlyExecute = FALSE
  BaseShellFaults = FALSE
INVARIANT RunsOwnImage
