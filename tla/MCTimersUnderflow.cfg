SPECIFICATION Spec
CONSTANTS
  Width = 5
  Period = 2
  TTL = 5
  TIMEOUT = 4
  Responders = {thermal}
  Tracked <- TrackOne
  OwnTasks = {}
  Kickers = {}
  PassTicks = 1
  MaxStall = 1
  thermal = thermal
  battery = battery
  simTask = simTask
PROPERTIES KilledOnlyWhenOld
