SPECIFICATION FairSpec
CONSTANTS
  Handlers = {h1}
  Uptimes = {20}
  Killed = {}
  EventsMax = 2
  Recent = 1
  MaxLines = 1
  MaxStarts = 2
PROPERTY ReopensRecreatedLog
CHECK_DEADLOCK FALSE
