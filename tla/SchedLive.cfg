SPECIFICATION Spec
CONSTANTS
  NUM_THREADS = 2
  MAX_PROCESSES = 3
  Statuses = {7}
  TickPoints <- LiveTicks
  EarlyExecute = TRUE
  BaseShellFaults = FALSE
PROPERTIES
  EveryThreadScheduled
  ShellRestarted
  CallsComplete
