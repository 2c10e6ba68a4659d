SPECIFICATION FairSpec
CONSTANTS
  wdog = wdog
  logger = logger
  recovery = recovery
  monitor = monitor
  simTask = simTask
  NONE = NONE
  LOGGER = logger
  SIM = simTask
  Tasks = {wdog, logger, recovery, monitor, simTask}
  Priority <- MCPriority
  Writers = {wdog}
  Printers = {monitor, simTask}
  QueueDepth = 2
  MaxMessages = 2
PROPERTIES LogIsComplete
CHECK_DEADLOCK FALSE
