SPECIFICATION FairSpec
CONSTANTS
  wdog = wdog
  logger = logger
  recovery = recovery
  monitor = monitor
  simTask = simTask
  NONE = NONE
  LOGGER = logger
  SIM = simTask
  Tasks = {wdog, logger, recovery, monitor, simTask}
  Priority <- MCPriority
  Writers = {wdog, recovery, simTask}
  Printers = {wdog, recovery, monitor, simTask}
  QueueDepth = 2
  MaxMessages = 2
INVARIANTS TypeOK IInv TopWriterWhole NeverOutOfOrder StatusLineNeverWaits
PROPERTIES NoPriorityInversion QueueDrains
CHECK_DEADLOCK FALSE
