SPECIFICATION Spec
CONSTANTS
  ApprovalIds = {a1}
  Bodies = {b1, b2}
  NoBody = noBody
  Procs = {p1, p2, p3}
  MaxCrashes = 1
SYMMETRY Symmetry
INVARIANTS
  DecidedOnce
  ReleasedAsProposed
  NoDecisionLost
  ClosedUnlessLate
PROPERTIES
  ImplementsGrant
CHECK_DEADLOCK FALSE
