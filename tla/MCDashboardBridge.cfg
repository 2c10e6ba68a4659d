SPECIFICATION FairSpec
CONSTANTS
  Handlers = {h1, h2}
  Uptimes = {20, 95}
  Killed = {"heap"}
  EventsMax = 2
  Recent = 1
  MaxLines = 3
  MaxStarts = 2
INVARIANTS
  TypeOK
  EventsCoverState
  RespondersMatchPhase
PROPERTIES
  NoLineSkipped
  TailCatchesUp
CHECK_DEADLOCK FALSE
