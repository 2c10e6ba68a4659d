SPECIFICATION Spec
CONSTANTS
  mem = mem
  sens = sens
  kHeap = kHeap
  kTherm = kTherm
  kBatt = kBatt
  NULL = NULL
  FROZEN = FROZEN
  Addr = {a1, a2, a3, a4}
  Monitors <- MCMonitors
  Kinds <- MCKinds
  HeapKinds = {kHeap}
  Checks <- MCChecks
  WdScan <- MCWdScan
  QueueLength = 1
SYMMETRY MCSymmetry
INVARIANTS
  TypeOK
  AtMostOneResponder
  NoOrphanResponder
  NoOrphanMonitor
  SnapshotFresh
  NoPendingCriticalEvent
  IInv
PROPERTY ImplementsService
CHECK_DEADLOCK FALSE
