SPECIFICATION PageSpec
CONSTANTS
  Orgs = {customer, provider}
  MaxCriteria = 2
  MaxVersions = 1
  MaxEvidence = 2
SYMMETRY Symmetry
INVARIANT DoneIsEvidenced
CHECK_DEADLOCK FALSE
