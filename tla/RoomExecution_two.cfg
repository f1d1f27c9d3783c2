SPECIFICATION Spec
CONSTANTS
  Orgs = {customer, provider}
  Criteria = {backup}
  MaxTurns = 2
  Procs = {p1, p2}
  MaxCrashes = 1
  MaxLost = 1
SYMMETRY Symmetry
INVARIANTS
  TypeOK
  
  TurnBudget
PROPERTY LegalMoves
CHECK_DEADLOCK FALSE
