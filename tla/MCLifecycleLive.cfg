SPECIFICATION FairSpec
CONSTANTS
  sens = sens
  kTherm = kTherm
  kBatt = kBatt
  NULL = NULL
  FROZEN = FROZEN
  Addr = {a1, a2, a3}
  Monitors = {sens}
  Kinds = {kTherm, kBatt}
  HeapKinds = {}
  Checks <- MCChecks
  WdScan <- MCWdScan
  QueueLength = 0
PROPERTIES
  ResponderStops
  CriticalIsServed
CHECK_DEADLOCK FALSE
