SPECIFICATION Spec
CONSTANTS
  Width = 4
  Period = 2
  TTL = 3
  TIMEOUT = 2
  Responders = {thermal, battery}
  Tracked <- TrackBoth
  OwnTasks = {simTask}
  Kickers = {simTask}
  PassTicks = 1
  MaxStall = 1
  thermal = thermal
  battery = battery
  simTask = simTask
INVARIANTS TypeOK KilledInTime SilenceIsNoticed
PROPERTIES KillIsDue NoFalseAlarm
