SPECIFICATION Spec
CONSTANTS
  WRAP = 2000
  MaxLate = 3
  Horizon = 270
INVARIANTS
  TypeOK
  DashboardPhaseAgrees
  LeaksBounded
  NoAlarmBeforeBlackout
  ServedInTime
  EndsInTime
  RespondersFitTheScenario
  EachAnnouncedOnce
PROPERTY PhasesInOrder
CHECK_DEADLOCK FALSE
