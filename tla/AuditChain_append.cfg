SPECIFICATION Spec
CONSTANTS
  Contents = {opened, closed}
  Procs = {p1, p2, p3}
  MaxEvents = 3
  MaxCrashes = 1
SYMMETRY Symmetry
INVARIANTS
  ChainIntact
  CheckpointsOnChain
  TamperingDetected
  EverythingAudited
CHECK_DEADLOCK FALSE
